---- MODULE Spec2Model ----
(***************************************************************************)
(* A model of the autopsy incident-response core:                          *)
(*   - triage.HeuristicAgent.Review     (internal/triage/agent.go)         *)
(*   - api.Server.handleCreateAlert     (internal/api/server.go)           *)
(*   - store.MemoryStore / store.SQLStore alert, incident and service      *)
(*     operations                      (internal/store/memory.go, sql.go)  *)
(*   - api.buildServiceAvailability     (internal/api/server.go)           *)
(*   - api.Server.handlePublicStatusPage (internal/api/server.go)          *)
(*   - auth.RefreshStore                 (internal/auth/refresh.go)        *)
(*   - middleware.RequireAuth / RequirePermission                          *)
(*                                       (internal/api/middleware/auth.go) *)
(*                                                                         *)
(* Strings.  Identifiers that the code only compares (service names,      *)
(* statuses, severities, phases) are TLA+ strings.  Strings the code       *)
(* searches or builds (description, title, issue title, root cause) are    *)
(* sequences of fragments; the empty string is a sequence whose fragments  *)
(* are all "".  A description is a sequence of words, strings.ToLower      *)
(* maps each word through LowerOf and strings.Contains looks for the       *)
(* needle among the lowered words.                                         *)
(*                                                                         *)
(* Seven specifications share the variables:                               *)
(*   Spec        concurrent handleCreateAlert invocations over a store     *)
(*   SpecStore   clients calling EnsureService / CreateIncident directly   *)
(*   SpecReview  Review applied to an arbitrary alert                      *)
(*   SpecAvail   buildServiceAvailability applied to arbitrary inputs      *)
(*   SpecStatus  handlePublicStatusPage applied to arbitrary requests      *)
(*   SpecRefresh concurrent callers of auth.RefreshStore                   *)
(*   SpecAuth    a request through RequireAuth and RequirePermission       *)
(***************************************************************************)
EXTENDS Integers, Sequences, FiniteSets, TLC

VARIABLES
    backend,      \* which store.Repository is in use: "memory" or "sql"
    counter,      \* MemoryStore.counter
    alerts,       \* MemoryStore.alerts / table alerts, in insertion order
    incidents,    \* MemoryStore.incidents / table incidents
    services,     \* MemoryStore.services / table services
    clock,        \* time.Now()
    procs,        \* per request: position in the handler and its locals
    calls,        \* per request: the store calls made so far, in order
    ensured,      \* every (name, returned service) of a finished EnsureService
    rvAlert,      \* Review: the alert under review
    rvNow,        \* Review: the value of time.Now() inside Review
    rvReport,     \* Review: the returned report
    avIn,         \* buildServiceAvailability: services, incidents, period
    avPc,         \* buildServiceAvailability: position
    avIdx,        \* buildServiceAvailability: next incident of the loop
    serviceDowntime, \* buildServiceAvailability: the accumulator map
    availabilities,  \* buildServiceAvailability: the returned slice
    spIn,         \* handlePublicStatusPage: the request and what the store holds
    spPc,         \* handlePublicStatusPage: position
    spIdx,        \* handlePublicStatusPage: next incident of the loop
    spStatus,     \* handlePublicStatusPage: the page being built (status)
    spResp,       \* handlePublicStatusPage: the HTTP status code written
    tokens,       \* table refresh_tokens, in insertion order
    rtClock,      \* RefreshStore: time.Now()
    rtProcs,      \* RefreshStore: per caller, the call in progress and its locals
    rtLog,        \* RefreshStore: the call that returned last, and the tokens
                  \* that a successful rotation or revocation has retired
    auReq,        \* middleware: the request (Authorization header, perm)
    auPc,         \* middleware: position in the chain
    auClaims,     \* middleware: the claims RequireAuth put in the context
    auResp        \* middleware: the status code written; 200 by the handler

vars == <<backend, counter, alerts, incidents, services, clock, procs, calls,
          ensured, rvAlert, rvNow, rvReport, avIn, avPc, avIdx,
          serviceDowntime, availabilities, spIn, spPc, spIdx, spStatus,
          spResp, tokens, rtClock, rtProcs, rtLog, auReq, auPc, auClaims,
          auResp>>

storeVars == <<backend, counter, alerts, incidents, services, clock, procs,
               calls, ensured>>
rvVars == <<rvAlert, rvNow, rvReport>>
avVars == <<avIn, avPc, avIdx, serviceDowntime, availabilities>>
spVars == <<spIn, spPc, spIdx, spStatus, spResp>>
rtVars == <<tokens, rtClock, rtProcs, rtLog>>
auVars == <<auReq, auPc, auClaims, auResp>>

None == "none"

(***************************************************************************)
(* Strings                                                                 *)
(***************************************************************************)
Words == {"timeout", "TIMEOUT", "TimeOut", "customer", "Customer", "retry",
          "Retry", "disk"}

\* strings.ToLower on one word
LowerOf(w) ==
    CASE w = "TIMEOUT"  -> "timeout"
      [] w = "TimeOut"  -> "timeout"
      [] w = "Customer" -> "customer"
      [] w = "Retry"    -> "retry"
      [] OTHER          -> w

ToLower(s) == [i \in DOMAIN s |-> LowerOf(s[i])]

\* strings.Contains(s, needle) for a one-word needle
Contains(s, needle) == \E i \in DOMAIN s : s[i] = needle

\* s == ""
IsEmptyStr(s) == \A i \in DOMAIN s : s[i] = ""

\* a Go map lookup m[k]: the zero value "" when the key is absent (or m is nil)
Lookup(m, k) == IF k \in DOMAIN m THEN m[k] ELSE ""

SeverityInfo == "info"
SeverityWarning == "warning"
SeverityCritical == "critical"
Severities == {SeverityInfo, SeverityWarning, SeverityCritical}

(***************************************************************************)
(* triage.HeuristicAgent.Review                                            *)
(***************************************************************************)
NoReport == [decision |-> None]

DefaultRootCause == <<"Insufficient telemetry for root-cause confidence">>
TimeoutRootCause == <<"Downstream dependency timeout causing user impact">>
MetricRootCause(metric) ==
    <<"Anomaly detected in metric ", "\"", metric, "\"",
      "; likely saturation/regression">>

SuggestedActions ==
    <<"Check SLO burn rate and error budget policy per Google SRE guidance",
      "Review recent deploy and rollback if correlated",
      "Verify service-level indicators in logs/metrics dashboard">>

AutoFixSteps ==
    <<"Scale workers for affected queue by +20%",
      "Invalidate stale cache entries for impacted route",
      "Monitor recovery for 15 minutes before resolving">>

\* the metric label taking precedence over the description
RootCause_MetricFirst(alert) ==
    IF "metric" \in DOMAIN alert.labels
    THEN MetricRootCause(alert.labels["metric"])
    ELSE IF Contains(ToLower(alert.description), "timeout")
         THEN TimeoutRootCause ELSE DefaultRootCause

\* agent.go 21-27
RootCause(alert) ==
    LET c1 == IF "metric" \in DOMAIN alert.labels
              THEN MetricRootCause(alert.labels["metric"])
              ELSE DefaultRootCause
    IN  IF Contains(ToLower(alert.description), "timeout")
        THEN TimeoutRootCause ELSE c1

\* a confidence that is high for warnings too
Confidence_Warning(alert) ==
    IF alert.severity \in {SeverityCritical, SeverityWarning}
    THEN "high" ELSE "medium"

\* agent.go 33-36
Confidence(alert) ==
    IF alert.severity = SeverityCritical THEN "high" ELSE "medium"

StartIncidentRule(alert) ==
    \/ alert.severity = SeverityCritical
    \/ Contains(ToLower(alert.description), "customer")

AutoFixRule(alert) ==
    /\ alert.severity = SeverityWarning
    /\ Contains(ToLower(alert.description), "retry")

\* a baseline whose summary quotes the alert's title
Baseline_TitledSummary(alert) ==
    [decision    |-> "create_issue",
     summary     |-> alert.title,
     autoFixPlan |-> << >>,
     issueTitle  |-> <<"Follow-up: ", alert.title, " (", alert.severity, ")">>]

\* agent.go 38-41
Baseline(alert) ==
    [decision    |-> "create_issue",
     summary     |-> "Alert reviewed; routed for follow-up issue triage",
     autoFixPlan |-> << >>,
     issueTitle  |-> <<"Follow-up: ", alert.title, " (", alert.severity, ")">>]

\* the override that leaves the issue title in place
ApplyStartIncident_KeepTitle(d, alert) ==
    IF StartIncidentRule(alert)
    THEN [d EXCEPT !.decision = "start_incident",
                   !.summary = "High-risk customer impact detected; incident response should start now"]
    ELSE d

\* agent.go 42-46
ApplyStartIncident(d, alert) ==
    IF StartIncidentRule(alert)
    THEN [d EXCEPT !.decision = "start_incident",
                   !.summary = "High-risk customer impact detected; incident response should start now",
                   !.issueTitle = << >>]
    ELSE d

\* agent.go 47-56
ApplyAutoFix(d, alert) ==
    IF AutoFixRule(alert)
    THEN [d EXCEPT !.decision = "auto_fix",
                   !.summary = "Alert appears remediable via safe automation",
                   !.autoFixPlan = AutoFixSteps,
                   !.issueTitle = << >>]
    ELSE d

\* the two overriding rules evaluated in the other order
Decide_IncidentLast(alert) ==
    ApplyStartIncident(ApplyAutoFix(Baseline(alert), alert), alert)

\* the sequential assignments of decision, summary, autoFixPlan, issueTitle
Decide(alert) ==
    ApplyAutoFix(ApplyStartIncident(Baseline(alert), alert), alert)

\* a timeline whose first two steps are stamped in the other order
Timeline_Swapped(rootCause, decision, now) ==
    << [phase |-> "received",
        detail |-> <<"Alert ingested and queued for AI triage">>,
        timestamp |-> now - 3],
       [phase |-> "context",
        detail |-> <<"Correlated severity, labels, and recent error patterns">>,
        timestamp |-> now - 5],
       [phase |-> "analysis", detail |-> rootCause, timestamp |-> now - 1],
       [phase |-> "decision", detail |-> <<"Decision: ", decision>>,
        timestamp |-> now] >>

\* agent.go 58-63
Timeline(rootCause, decision, now) ==
    << [phase |-> "received",
        detail |-> <<"Alert ingested and queued for AI triage">>,
        timestamp |-> now - 5],
       [phase |-> "context",
        detail |-> <<"Correlated severity, labels, and recent error patterns">>,
        timestamp |-> now - 3],
       [phase |-> "analysis", detail |-> rootCause, timestamp |-> now - 1],
       [phase |-> "decision", detail |-> <<"Decision: ", decision>>,
        timestamp |-> now] >>

Review(alert, now) ==
    LET d == Decide(alert)
        rootCause == RootCause(alert)
    IN  [summary          |-> d.summary,
         likelyRootCause  |-> rootCause,
         suggestedActions |-> SuggestedActions,
         decision         |-> d.decision,
         issueTitle       |-> d.issueTitle,
         autoFixPlan      |-> d.autoFixPlan,
         timeline         |-> Timeline(rootCause, d.decision, now),
         confidence       |-> Confidence(alert),
         reviewedAt       |-> now]

(***************************************************************************)
(* The store: store.MemoryStore and store.SQLStore                         *)
(*                                                                         *)
(* Both keep alerts, incidents and services in insertion order.  The       *)
(* memory store draws every id from one counter; the SQL store lets each   *)
(* table number its rows.  A MemoryStore method runs under s.mu and is one *)
(* step that cannot fail.  A SQLStore method is a sequence of statements;  *)
(* each statement is one step and may return an error without effect.      *)
(***************************************************************************)
NumProcs == 2
MaxClock == 2

Procs == 1..NumProcs

NoID == << >>
NoTime == -1
ZeroTime == 0

\* fmt.Sprintf("%s-%06d", prefix, n)
FormatID(prefix, n) == <<prefix, n>>

\* parseNumericID: the number after the first "-", 0 when there is none
parseNumericID(id) == IF Len(id) = 2 THEN id[2] ELSE 0

memoryServiceUnknown == "unknown"

NoIncident == [id |-> NoID]
NoService == [id |-> NoID, name |-> ""]

\* the outcomes of one statement: a MemoryStore method never returns an error
Failures == IF backend = "sql" THEN {FALSE, TRUE} ELSE {FALSE}

\* the id given to a new row / element
nextID(prefix, table) ==
    IF backend = "memory" THEN FormatID(prefix, counter + 1)
    ELSE FormatID(prefix, Len(table) + 1)

FindService(name) ==
    IF \E i \in DOMAIN services : services[i].name = name
    THEN services[CHOOSE i \in DOMAIN services :
                     /\ services[i].name = name
                     /\ \A j \in DOMAIN services :
                            services[j].name = name => i <= j]
    ELSE NoService

\* a lookup by name that never finds the service
HasService_Never(name) == FALSE

\* the loop over s.services / the UNIQUE constraint on services.name
HasService(name) == \E i \in DOMAIN services : services[i].name = name

\* the row an UPDATE ... WHERE id = n touches / the element the loop finds
MatchesAlert(row, alertID) ==
    IF backend = "memory" THEN row.id = alertID
    ELSE parseNumericID(row.id) = parseNumericID(alertID)

FirstMatch(alertID) ==
    IF \E i \in DOMAIN alerts : MatchesAlert(alerts[i], alertID)
    THEN CHOOSE i \in DOMAIN alerts :
             /\ MatchesAlert(alerts[i], alertID)
             /\ \A j \in DOMAIN alerts : MatchesAlert(alerts[j], alertID) => i <= j
    ELSE 0

\* an UpdateAlertTriage that attaches the report and leaves the status
WithTriage_KeepStatus(alertID, report) ==
    [i \in DOMAIN alerts |->
        IF i = FirstMatch(alertID)
        THEN [alerts[i] EXCEPT !.triage = report]
        ELSE alerts[i]]

\* an UpdateAlertTriage that raises the status as far as it goes
WithTriage_Open(alertID, report) ==
    [i \in DOMAIN alerts |->
        IF i = FirstMatch(alertID)
        THEN [alerts[i] EXCEPT !.triage = report, !.status = "incident_open"]
        ELSE alerts[i]]

\* UpdateAlertTriage on the stored alerts
WithTriage(alertID, report) ==
    [i \in DOMAIN alerts |->
        IF i = FirstMatch(alertID)
        THEN [alerts[i] EXCEPT !.triage = report, !.status = "triaged"]
        ELSE alerts[i]]

\* an UpdateAlertStatus that returns nil without writing
WithStatus_Dropped(alertID, status) == alerts

\* UpdateAlertStatus on the stored alerts
WithStatus(alertID, status) ==
    [i \in DOMAIN alerts |->
        IF i = FirstMatch(alertID)
        THEN [alerts[i] EXCEPT !.status = status]
        ELSE alerts[i]]

\* defaults that leave an empty service name alone
IncidentDefaults_KeepEmpty(in) ==
    LET c == IF in.createdAt = ZeroTime THEN [in EXCEPT !.createdAt = clock] ELSE in
    IN  IF c.status = "resolved" /\ c.resolvedAt = NoTime
        THEN [c EXCEPT !.resolvedAt = clock] ELSE c

\* the defaults CreateIncident applies before it stores the incident
IncidentDefaults(in) ==
    LET c == IF in.createdAt = ZeroTime THEN [in EXCEPT !.createdAt = clock] ELSE in
        s == IF c.service = "" THEN [c EXCEPT !.service = memoryServiceUnknown] ELSE c
        r == IF s.status = "resolved" /\ s.resolvedAt = NoTime
             THEN [s EXCEPT !.resolvedAt = clock] ELSE s
    IN  r

\* name == "" -> "unknown" in EnsureService
ServiceName(name) == IF name = "" THEN memoryServiceUnknown ELSE name

IdleProc ==
    [kind |-> None, pc |-> "idle", submitted |-> "", alert |-> [id |-> NoID],
     report |-> NoReport, service |-> "", incident |-> NoIncident,
     resp |-> [code |-> 0]]

\* the requests are interchangeable: the lowest idle one is the next to start
NextCaller(p) ==
    /\ procs[p].pc = "idle"
    /\ \A q \in Procs : q < p => procs[q].pc # "idle"

\* an error branch that writes the 500 and does not return
Fail_NoReturn(p) == [procs[p] EXCEPT !.resp = [code |-> 500]]

\* the request is answered with http.Error(..., 500)
Fail(p) == [procs[p] EXCEPT !.pc = "failed", !.resp = [code |-> 500]]

\* a handler that makes every store call twice
Log_Twice(p, call) == [calls EXCEPT ![p] = Append(Append(@, call), call)]

\* the store call the invocation makes is recorded
Log(p, call) == [calls EXCEPT ![p] = Append(@, call)]

(***************************************************************************)
(* api.Server.handleCreateAlert                                            *)
(***************************************************************************)
Labels(service, metric) ==
    [k \in {x \in {"service", "metric"} :
                \/ x = "service" /\ service # None
                \/ x = "metric" /\ metric # None} |->
        IF k = "service" THEN service ELSE metric]

\* the request bodies the model submits
AlertRequests ==
    { [source |-> "", title |-> "db down", description |-> <<"TIMEOUT">>,
       severity |-> SeverityCritical, status |-> "",
       labels |-> Labels("api", None)],
      [source |-> "", title |-> "checkout", description |-> <<"Customer">>,
       severity |-> SeverityWarning, status |-> "",
       labels |-> Labels(None, None)],
      [source |-> "", title |-> "queue lag",
       description |-> <<"Customer", "Retry">>,
       severity |-> SeverityWarning, status |-> "",
       labels |-> Labels("api", None)],
      [source |-> "prometheus", title |-> "", description |-> <<"disk">>,
       severity |-> SeverityInfo, status |-> "received",
       labels |-> Labels("", "cpu")],
      [source |-> "", title |-> "db down", description |-> << >>,
       severity |-> SeverityCritical, status |-> "incident_open",
       labels |-> Labels("", None)] }

\* json.Decode into an app.Alert: the fields the body omits are zero
Decode(raw) ==
    [id |-> NoID, source |-> raw.source, title |-> raw.title,
     description |-> raw.description, severity |-> raw.severity,
     status |-> raw.status, labels |-> raw.labels, triage |-> NoReport,
     createdAt |-> ZeroTime]

\* server.go 323-328
Normalize(a) ==
    [a EXCEPT !.source = IF @ = "" THEN "grafana" ELSE @,
              !.status = IF @ = "" THEN "received" ELSE @]

\* the label passed on as it is
ResolveService_Raw(alert) == Lookup(alert.labels, "service")

\* server.go 349-352
ResolveService(alert) ==
    IF Lookup(alert.labels, "service") # "" THEN alert.labels["service"]
    ELSE "unknown"

\* an incident that is handed over as resolved
AutoIncident_Resolved(alert, service) ==
    [id |-> NoID,
     alertID |-> alert.id,
     service |-> service,
     title |-> <<"Auto-created incident for triaged alert: ", alert.title>>,
     severity |-> alert.severity,
     status |-> "resolved",
     statusPageURL |-> <<"/status/", alert.id>>,
     createdAt |-> ZeroTime,
     resolvedAt |-> NoTime]

\* server.go 359-366: the incident handed to CreateIncident
AutoIncident(alert, service) ==
    [id |-> NoID,
     alertID |-> alert.id,
     service |-> service,
     title |-> <<"Auto-created incident for triaged alert: ", alert.title>>,
     severity |-> alert.severity,
     status |-> "investigating",
     statusPageURL |-> <<"/status/", alert.id>>,
     createdAt |-> ZeroTime,
     resolvedAt |-> NoTime]

\* the incident a CreateIncident call was given
IncidentArg(p) ==
    IF procs[p].kind = "alert"
    THEN AutoIncident(procs[p].alert, procs[p].service)
    ELSE procs[p].incident

\* the name the running EnsureService was given
EnsureArg(p) ==
    IF procs[p].pc \in {"ensure", "ensure_sel"} THEN procs[p].service
    ELSE IncidentDefaults(IncidentArg(p)).service

\* decode the body and normalise it (server.go 317-328)
Receive(p) ==
    /\ NextCaller(p)
    /\ \E raw \in AlertRequests :
         procs' = [procs EXCEPT ![p] =
                     [@ EXCEPT !.kind = "alert", !.pc = "save",
                               !.submitted = raw.status,
                               !.alert = Normalize(Decode(raw))]]
    /\ UNCHANGED <<backend, counter, alerts, incidents, services, clock,
                   calls, ensured>>
    /\ UNCHANGED <<rvVars, avVars, spVars, rtVars, auVars>>

\* s.store.SaveAlert and its error check (server.go 330-334)
SaveAlert(p) ==
    /\ procs[p].pc = "save"
    /\ calls' = Log(p, "SaveAlert")
    /\ \E fail \in Failures :
         IF fail
         THEN /\ procs' = [procs EXCEPT ![p] = Fail(p)]
              /\ UNCHANGED <<counter, alerts>>
         ELSE LET a  == procs[p].alert
                  st == [a EXCEPT !.id = nextID("alt", alerts),
                                  !.createdAt = clock,
                                  !.status = IF @ = "" THEN "received" ELSE @]
              IN  /\ alerts' = Append(alerts, st)
                  /\ counter' = IF backend = "memory" THEN counter + 1
                                ELSE counter
                  /\ procs' = [procs EXCEPT ![p] =
                                 [@ EXCEPT !.pc = "triage", !.alert = st]]
    /\ UNCHANGED <<backend, incidents, services, clock, ensured>>
    /\ UNCHANGED <<rvVars, avVars, spVars, rtVars, auVars>>

\* Review, s.store.UpdateAlertTriage, the decision test (server.go 336-352)
UpdateAlertTriage(p) ==
    /\ procs[p].pc = "triage"
    /\ calls' = Log(p, "UpdateAlertTriage")
    /\ LET a      == procs[p].alert
           report == Review(a, clock)
       IN  \E fail \in Failures :
             IF fail
             THEN /\ procs' = [procs EXCEPT ![p] =
                                 [Fail(p) EXCEPT !.report = report]]
                  /\ UNCHANGED alerts
             ELSE LET a2 == [a EXCEPT !.triage = report, !.status = "triaged"]
                  IN  /\ alerts' = WithTriage(a.id, report)
                      /\ procs' = [procs EXCEPT ![p] =
                           IF report.decision # "start_incident"
                           THEN [@ EXCEPT !.pc = "done", !.alert = a2,
                                          !.report = report,
                                          !.resp = [code |-> 201, alert |-> a2,
                                                    incident |-> NoIncident]]
                           ELSE [@ EXCEPT !.pc = "ensure", !.alert = a2,
                                          !.report = report,
                                          !.service = ResolveService(a2)]]
    /\ UNCHANGED <<backend, counter, incidents, services, clock, ensured>>
    /\ UNCHANGED <<rvVars, avVars, spVars, rtVars, auVars>>

\* what the caller of a finished EnsureService does next
AfterEnsure(p, svc) ==
    IF procs[p].pc \in {"create", "create_sel"}
    THEN [procs[p] EXCEPT !.pc = "create_ins"]
    ELSE IF procs[p].kind = "alert"
         THEN [procs[p] EXCEPT !.pc = "create"]
         ELSE [procs[p] EXCEPT !.pc = "done",
                               !.resp = [code |-> 200, service |-> svc]]

\* MemoryStore.EnsureService as a whole; in the SQL store the INSERT OR
\* IGNORE / ON CONFLICT DO NOTHING statement of EnsureService, which
\* CreateIncident runs too, after it has applied its defaults
EnsureService(p) ==
    /\ \/ procs[p].pc = "ensure"
       \/ backend = "sql" /\ procs[p].pc = "create"
    /\ calls' = Log(p, IF procs[p].pc = "ensure" THEN "EnsureService"
                       ELSE "CreateIncident")
    /\ LET name == ServiceName(EnsureArg(p))
           svc  == [id |-> nextID("svc", services), name |-> name]
           me   == IF procs[p].pc = "create"
                   THEN [procs[p] EXCEPT
                            !.incident = IncidentDefaults(IncidentArg(p))]
                   ELSE procs[p]
       IN  IF backend = "memory"
           THEN /\ services' = IF HasService(name) THEN services
                               ELSE Append(services, svc)
                /\ counter' = IF HasService(name) THEN counter ELSE counter + 1
                /\ ensured' = ensured \cup
                      {[arg |-> EnsureArg(p),
                        svc |-> IF HasService(name) THEN FindService(name)
                                ELSE svc]}
                /\ procs' = [procs EXCEPT ![p] =
                       AfterEnsure(p, IF HasService(name)
                                      THEN FindService(name) ELSE svc)]
           ELSE \E fail \in Failures :
                  IF fail
                  THEN /\ procs' = [procs EXCEPT ![p] =
                              [me EXCEPT !.pc = "failed",
                                         !.resp = [code |-> 500]]]
                       /\ UNCHANGED <<services, counter, ensured>>
                  ELSE /\ services' = IF HasService(name) THEN services
                                      ELSE Append(services, svc)
                       /\ procs' = [procs EXCEPT ![p] =
                              [me EXCEPT !.pc = IF procs[p].pc = "ensure"
                                                THEN "ensure_sel"
                                                ELSE "create_sel"]]
                       /\ UNCHANGED <<counter, ensured>>
    /\ UNCHANGED <<backend, alerts, incidents, clock>>
    /\ UNCHANGED <<rvVars, avVars, spVars, rtVars, auVars>>

\* the SELECT ... WHERE name = ? of SQLStore.EnsureService
EnsureServiceLookup(p) ==
    /\ backend = "sql"
    /\ procs[p].pc \in {"ensure_sel", "create_sel"}
    /\ LET arg  == IF procs[p].pc = "ensure_sel" THEN procs[p].service
                   ELSE procs[p].incident.service
           name == ServiceName(arg)
       IN  \E fail \in Failures :
             IF fail \/ ~HasService(name)
             THEN /\ procs' = [procs EXCEPT ![p] = Fail(p)]
                  /\ UNCHANGED ensured
             ELSE /\ ensured' = ensured \cup
                        {[arg |-> arg, svc |-> FindService(name)]}
                  /\ procs' = [procs EXCEPT ![p] =
                                  AfterEnsure(p, FindService(name))]
    /\ UNCHANGED <<backend, counter, alerts, incidents, services, clock, calls>>
    /\ UNCHANGED <<rvVars, avVars, spVars, rtVars, auVars>>

\* a store that merges a new incident into an open one of the same service
AppendIncident_Merge(table, in) ==
    IF \E i \in DOMAIN table :
          table[i].service = in.service /\ table[i].status = "investigating"
    THEN table ELSE Append(table, in)

\* s.incidents = append(s.incidents, incident) / INSERT INTO incidents
AppendIncident(table, in) == Append(table, in)

\* what the caller of a finished CreateIncident does next
AfterCreate(p, in) ==
    IF procs[p].kind = "alert"
    THEN [procs[p] EXCEPT !.pc = "status", !.incident = in]
    ELSE [procs[p] EXCEPT !.pc = "done", !.incident = in,
                          !.resp = [code |-> 200, incident |-> in]]

\* MemoryStore.CreateIncident as a whole; in the SQL store the INSERT INTO
\* incidents that ends CreateIncident
CreateIncident(p) ==
    /\ \/ backend = "memory" /\ procs[p].pc = "create"
       \/ backend = "sql" /\ procs[p].pc = "create_ins"
    /\ IF backend = "memory"
       THEN LET in0 == [IncidentArg(p) EXCEPT !.id = FormatID("inc", counter + 1)]
                in  == IncidentDefaults(in0)
                has == HasService(in.service)
            IN  /\ calls' = Log(p, "CreateIncident")
                /\ services' = IF has THEN services
                               ELSE Append(services,
                                      [id |-> FormatID("svc", counter + 2),
                                       name |-> in.service])
                /\ counter' = IF has THEN counter + 1 ELSE counter + 2
                /\ incidents' = AppendIncident(incidents, in)
                /\ procs' = [procs EXCEPT ![p] = AfterCreate(p, in)]
       ELSE /\ UNCHANGED <<calls, services, counter>>
            /\ \E fail \in Failures :
                 IF fail
                 THEN /\ procs' = [procs EXCEPT ![p] = Fail(p)]
                      /\ UNCHANGED incidents
                 ELSE LET in == [procs[p].incident EXCEPT
                                    !.id = nextID("inc", incidents)]
                      IN  /\ incidents' = AppendIncident(incidents, in)
                          /\ procs' = [procs EXCEPT ![p] = AfterCreate(p, in)]
    /\ UNCHANGED <<backend, alerts, clock, ensured>>
    /\ UNCHANGED <<rvVars, avVars, spVars, rtVars, auVars>>

\* s.store.UpdateAlertStatus(alert.ID, "incident_open") and the response
\* (server.go 372-377)
UpdateAlertStatus(p) ==
    /\ procs[p].pc = "status"
    /\ calls' = Log(p, "UpdateAlertStatus")
    /\ \E fail \in Failures :
         IF fail
         THEN /\ procs' = [procs EXCEPT ![p] = Fail(p)]
              /\ UNCHANGED alerts
         ELSE LET a2 == [procs[p].alert EXCEPT !.status = "incident_open"]
              IN  /\ alerts' = WithStatus(procs[p].alert.id, "incident_open")
                  /\ procs' = [procs EXCEPT ![p] =
                        [@ EXCEPT !.pc = "done", !.alert = a2,
                                  !.resp = [code |-> 201, alert |-> a2,
                                            incident |-> procs[p].incident]]]
    /\ UNCHANGED <<backend, counter, incidents, services, clock, ensured>>
    /\ UNCHANGED <<rvVars, avVars, spVars, rtVars, auVars>>

InitStore ==
    /\ backend \in {"memory", "sql"}
    /\ counter = 0
    /\ alerts = << >>
    /\ incidents = << >>
    /\ services = << >>
    /\ clock = 1
    /\ procs = [p \in Procs |-> IdleProc]
    /\ calls = [p \in Procs |-> << >>]
    /\ ensured = {}

IdleReview == rvAlert = None /\ rvNow = 0 /\ rvReport = NoReport
IdleAvail ==
    /\ avIn = None
    /\ avPc = "idle"
    /\ avIdx = 0
    /\ serviceDowntime = << >>
    /\ availabilities = << >>

IdleStatus ==
    /\ spIn = None
    /\ spPc = "idle"
    /\ spIdx = 0
    /\ spStatus = None
    /\ spResp = 0

\* a caller of the RefreshStore that has no call in progress
NoToken == << >>
IdleCaller == [op |-> None, pc |-> "idle", raw |-> NoToken, row |-> 0,
               atCall |-> None]

IdleRefresh ==
    /\ tokens = << >>
    /\ rtClock = 1
    /\ rtProcs = [p \in Procs |-> IdleCaller]
    /\ rtLog = [last |-> [op |-> None, raw |-> NoToken, ok |-> FALSE,
                          atCall |-> None],
                retired |-> {},
                rotations |-> {}]

\* no request is in the middleware chain
NoClaims == [roles |-> << >>, present |-> FALSE]
IdleAuth ==
    /\ auReq = None
    /\ auPc = "idle"
    /\ auClaims = NoClaims
    /\ auResp = 0

Init ==
    /\ InitStore /\ IdleReview /\ IdleAvail /\ IdleStatus /\ IdleRefresh
    /\ IdleAuth

Next ==
    \E p \in Procs :
        \/ Receive(p)
        \/ SaveAlert(p)
        \/ UpdateAlertTriage(p)
        \/ EnsureService(p)
        \/ EnsureServiceLookup(p)
        \/ CreateIncident(p)
        \/ UpdateAlertStatus(p)

Spec == Init /\ [][Next]_vars

(***************************************************************************)
(* Clients that call the store directly (as the tests of the api package   *)
(* do): EnsureService(name) and CreateIncident(incident), then the next    *)
(* call.                                                                   *)
(***************************************************************************)
MaxStoreIncidents == 2

ServiceNames == {"", "api", "unknown"}

DirectIncident(service, status, createdAt, resolvedAt) ==
    [id |-> NoID, alertID |-> FormatID("alt", 1), service |-> service,
     title |-> <<"payments latency">>, severity |-> SeverityCritical,
     status |-> status, statusPageURL |-> <<"/status/", FormatID("alt", 1)>>,
     createdAt |-> createdAt, resolvedAt |-> resolvedAt]

\* the incidents the clients submit
IncidentInputs ==
    { DirectIncident("api", "investigating", ZeroTime, NoTime),
      DirectIncident("", "resolved", 1, NoTime),
      DirectIncident("api", "resolved", 1, 1),
      DirectIncident("", "investigating", ZeroTime, 1) }

CallEnsureService(p) ==
    /\ NextCaller(p)
    /\ \E name \in ServiceNames :
         procs' = [procs EXCEPT ![p] =
                     [@ EXCEPT !.kind = "ensure", !.pc = "ensure",
                               !.service = name]]
    /\ UNCHANGED <<backend, counter, alerts, incidents, services, clock,
                   calls, ensured>>
    /\ UNCHANGED <<rvVars, avVars, spVars, rtVars, auVars>>

CallCreateIncident(p) ==
    /\ NextCaller(p)
    /\ Len(incidents) + Cardinality({q \in Procs : procs[q].kind = "create"})
          < MaxStoreIncidents
    /\ \E in \in IncidentInputs :
         procs' = [procs EXCEPT ![p] =
                     [@ EXCEPT !.kind = "create", !.pc = "create",
                               !.incident = in]]
    /\ UNCHANGED <<backend, counter, alerts, incidents, services, clock,
                   calls, ensured>>
    /\ UNCHANGED <<rvVars, avVars, spVars, rtVars, auVars>>

\* the call has returned; the client is free to make the next one
Return(p) ==
    /\ procs[p].pc \in {"done", "failed"}
    /\ procs' = [procs EXCEPT ![p] = IdleProc]
    /\ calls' = [calls EXCEPT ![p] = << >>]
    /\ UNCHANGED <<backend, counter, alerts, incidents, services, clock,
                   ensured>>
    /\ UNCHANGED <<rvVars, avVars, spVars, rtVars, auVars>>

\* time passes
Tick ==
    /\ clock < MaxClock
    /\ clock' = clock + 1
    /\ UNCHANGED <<backend, counter, alerts, incidents, services, procs,
                   calls, ensured>>
    /\ UNCHANGED <<rvVars, avVars, spVars, rtVars, auVars>>

NextStore ==
    \/ Tick
    \/ \E p \in Procs :
        \/ CallEnsureService(p)
        \/ CallCreateIncident(p)
        \/ EnsureService(p)
        \/ EnsureServiceLookup(p)
        \/ CreateIncident(p)
        \/ Return(p)

SpecStore == Init /\ [][NextStore]_vars

(***************************************************************************)
(* Properties of handleCreateAlert (specification Spec)                    *)
(***************************************************************************)
AlertProcs == {p \in Procs : procs[p].kind = "alert"}

\* the invocation has answered 201: none of its store calls failed
Succeeded(p) == procs[p].kind = "alert" /\ procs[p].pc = "done"

\* a store call of the invocation returned an error
Failed(p) == procs[p].kind = "alert" /\ procs[p].pc = "failed"

LastCall(p) == calls[p][Len(calls[p])]

StoredAlerts(id) == {i \in DOMAIN alerts : alerts[i].id = id}
IncidentsOf(id) == {i \in DOMAIN incidents : incidents[i].alertID = id}

\* C1: in an invocation none of whose store calls fails, an incident is
\* created iff the triage decision is start_incident, and the alert's status,
\* in the response and in the store, is "incident_open" if an incident was
\* created and "triaged" otherwise.
C1_IncidentIffStartIncident ==
    \A p \in Procs :
        Succeeded(p) =>
            LET id       == procs[p].resp.alert.id
                created  == IncidentsOf(id) # {}
                expected == IF created THEN "incident_open" ELSE "triaged"
            IN  /\ created <=> procs[p].resp.alert.triage.decision = "start_incident"
                /\ created <=> procs[p].resp.incident # NoIncident
                /\ procs[p].resp.alert.status = expected
                /\ StoredAlerts(id) # {}
                /\ \A i \in StoredAlerts(id) : alerts[i].status = expected

C1_Witness ==
    \E p, q \in Procs :
        /\ Succeeded(p) /\ IncidentsOf(procs[p].alert.id) # {}
        /\ Succeeded(q) /\ IncidentsOf(procs[q].alert.id) = {}

\* C3 (as claimed): the stored status of an alert is always one of received,
\* triaged, incident_open, and the only changes are received -> triaged and
\* triaged -> incident_open; an alert is triaged at most once.
C3_StatusTransitions ==
    [][ /\ \A i \in DOMAIN alerts' :
              alerts'[i].status \in {"received", "triaged", "incident_open"}
        /\ \A i \in DOMAIN alerts :
              /\ alerts'[i].status # alerts[i].status =>
                    \/ alerts[i].status = "received" /\ alerts'[i].status = "triaged"
                    \/ alerts[i].status = "triaged" /\ alerts'[i].status = "incident_open"
              /\ alerts[i].triage # NoReport => alerts'[i].triage = alerts[i].triage
      ]_vars

\* C4: when a store call of an invocation fails, the invocation answers with
\* a failure and makes no further store call, and nothing that was in the
\* store is changed or removed, by that step or later.
C4_FailureAborts ==
    [][ \A p \in Procs :
          /\ (procs[p].kind = "alert" /\ procs'[p].resp.code = 500) =>
                /\ procs'[p].pc = "failed"
                /\ procs'[p].resp = [code |-> 500]
          /\ Failed(p) => procs'[p] = procs[p] /\ calls'[p] = calls[p]
          /\ (procs'[p].pc = "failed" /\ procs[p].pc # "failed") =>
                /\ alerts' = alerts
                /\ incidents' = incidents
          /\ Failed(p) =>
                /\ \A i \in DOMAIN alerts :
                      alerts[i].id = procs[p].alert.id =>
                          i \in DOMAIN alerts' /\ alerts'[i] = alerts[i]
                /\ \A i \in DOMAIN incidents :
                      i \in DOMAIN incidents' /\ incidents'[i] = incidents[i]
                /\ \A i \in DOMAIN services :
                      i \in DOMAIN services' /\ services'[i] = services[i]
      ]_vars

C4_Witness ==
    \E p \in Procs :
        /\ Failed(p)
        /\ Len(calls[p]) >= 3
        /\ StoredAlerts(procs[p].alert.id) # {}
        /\ \E q \in Procs : q # p /\ Succeeded(q)

\* the invocation failed at a store call made after the triage report was
\* persisted
FailedAfterTriage(p) ==
    /\ Failed(p)
    /\ LastCall(p) \in {"EnsureService", "CreateIncident", "UpdateAlertStatus"}

\* C5 (as claimed): an invocation that fails after the triage report was
\* persisted leaves its alert at "triaged" and no incident with its alertID.
C5_FailureLeavesNoIncident ==
    \A p \in Procs :
        FailedAfterTriage(p) =>
            /\ \A i \in StoredAlerts(procs[p].alert.id) :
                  alerts[i].status = "triaged"
            /\ IncidentsOf(procs[p].alert.id) = {}

\* C5 (amended): such an invocation leaves its alert at "triaged"; there is
\* no incident with its alertID when EnsureService or CreateIncident failed,
\* and exactly the one incident just created when UpdateAlertStatus failed.
C5_FailureLeavesTriaged ==
    \A p \in Procs :
        FailedAfterTriage(p) =>
            /\ StoredAlerts(procs[p].alert.id) # {}
            /\ \A i \in StoredAlerts(procs[p].alert.id) :
                  alerts[i].status = "triaged"
            /\ LastCall(p) \in {"EnsureService", "CreateIncident"} =>
                  IncidentsOf(procs[p].alert.id) = {}
            /\ LastCall(p) = "UpdateAlertStatus" =>
                  Cardinality(IncidentsOf(procs[p].alert.id)) = 1

C5_Witness ==
    \E p, q \in Procs :
        /\ FailedAfterTriage(p) /\ LastCall(p) = "CreateIncident"
        /\ FailedAfterTriage(q) /\ LastCall(q) = "UpdateAlertStatus"

\* the service an alert targets: labels["service"], "unknown" when it is
\* absent or blank
TargetOf(alert) ==
    IF "service" \in DOMAIN alert.labels /\ alert.labels["service"] # ""
    THEN alert.labels["service"] ELSE "unknown"

StartedFor(s) ==
    {p \in Procs : /\ Succeeded(p)
                   /\ procs[p].alert.triage.decision = "start_incident"
                   /\ TargetOf(procs[p].alert) = s}

C6_EnsureServiceIdempotent ==
    /\ \A i, j \in DOMAIN services :
          services[i].name = services[j].name => i = j
    /\ \A e \in ensured :
          /\ e.svc.name = (IF e.arg = "" THEN "unknown" ELSE e.arg)
          /\ \E i \in DOMAIN services : services[i] = e.svc
    /\ \A e1, e2 \in ensured :
          e1.svc.name = e2.svc.name => e1.svc.id = e2.svc.id

C6_Witness ==
    /\ \E e1, e2 \in ensured : e1.arg = "" /\ e2.arg = "unknown"
    /\ \E e \in ensured : e.arg = "api"
    /\ \E i \in DOMAIN incidents : incidents[i].service = "unknown"
    /\ \E i \in DOMAIN incidents : incidents[i].service = "api"

(***************************************************************************)
(* Review applied to an arbitrary alert (specification SpecReview)         *)
(***************************************************************************)
MaxDescWords == 2

Descriptions ==
    UNION {[1..n -> Words] : n \in 0..MaxDescWords}

RvAlerts ==
    [id : {FormatID("alt", 1)}, source : {"grafana"},
     title : {"", "db down"}, description : Descriptions,
     severity : Severities, status : {"received"},
     labels : {Labels(None, None), Labels(None, ""), Labels("api", "cpu")},
     triage : {NoReport}, createdAt : {1}]

IdleStore ==
    /\ backend = "memory"
    /\ counter = 0
    /\ alerts = << >>
    /\ incidents = << >>
    /\ services = << >>
    /\ clock = 1
    /\ procs = [p \in Procs |-> IdleProc]
    /\ calls = [p \in Procs |-> << >>]
    /\ ensured = {}

InitReview ==
    /\ IdleAuth
    /\ IdleStore
    /\ IdleAvail
    /\ IdleStatus
    /\ IdleRefresh
    /\ rvAlert \in RvAlerts
    /\ rvNow \in {5, 6}
    /\ rvReport = NoReport

RunReview ==
    /\ rvReport = NoReport
    /\ rvReport' = Review(rvAlert, rvNow)
    /\ UNCHANGED <<rvAlert, rvNow>>
    /\ UNCHANGED <<storeVars, avVars, spVars, rtVars, auVars>>

NextReview == RunReview

SpecReview == InitReview /\ [][NextReview]_vars

Reviewed == rvReport # NoReport

\* the description contains the word in some letter case
Mentions(desc, spellings) == \E i \in DOMAIN desc : desc[i] \in spellings

\* C2: the decision is auto_fix when severity is warning and the description
\* contains "retry" in any case; otherwise start_incident when severity is
\* critical or the description contains "customer" in any case; otherwise
\* create_issue.  When both predicates hold, auto_fix wins.
C2_DecisionRules ==
    Reviewed =>
        LET retry    == Mentions(rvAlert.description, {"retry", "Retry"})
            customer == Mentions(rvAlert.description, {"customer", "Customer"})
            autoFix  == rvAlert.severity = "warning" /\ retry
            start    == rvAlert.severity = "critical" \/ customer
        IN  /\ rvReport.decision \in {"create_issue", "start_incident", "auto_fix"}
            /\ rvReport.decision =
                  IF autoFix THEN "auto_fix"
                  ELSE IF start THEN "start_incident" ELSE "create_issue"

C2_Witness ==
    /\ Reviewed
    /\ rvAlert.severity = "warning"
    /\ rvAlert.description = <<"Customer", "Retry">>
    /\ rvReport.decision = "auto_fix"

\* C15: for every alert, one with an empty title included, issueTitle is
\* non-empty iff the decision is create_issue and autoFixPlan is non-empty
\* iff the decision is auto_fix.
C15_TitleAndPlanIffDecision ==
    Reviewed =>
        /\ ~IsEmptyStr(rvReport.issueTitle) <=> rvReport.decision = "create_issue"
        /\ rvReport.autoFixPlan # << >> <=> rvReport.decision = "auto_fix"

\* an alert without a title was routed to an issue
C15_Witness ==
    /\ Reviewed
    /\ rvAlert.title = ""
    /\ rvReport.decision = "create_issue"
    /\ ~IsEmptyStr(rvReport.issueTitle)

\* C16: confidence is "high" iff severity is critical and "medium"
\* otherwise, whichever decision is selected.
C16_ConfidenceIffCritical ==
    Reviewed =>
        /\ rvReport.confidence = "high" <=> rvAlert.severity = "critical"
        /\ rvReport.confidence = "medium" <=> rvAlert.severity # "critical"

\* a warning that starts an incident keeps medium confidence
C16_Witness ==
    /\ Reviewed
    /\ rvAlert.severity = "warning"
    /\ rvReport.decision = "start_incident"
    /\ rvReport.confidence = "medium"

\* C17: when the description contains "timeout" in any letter case,
\* likelyRootCause is the timeout string whether or not labels["metric"] is
\* present, and the analysis entry of the timeline carries the same string.
C17_TimeoutRootCause ==
    (Reviewed /\ Mentions(rvAlert.description, {"timeout", "TIMEOUT", "TimeOut"}))
        => /\ rvReport.likelyRootCause =
                 <<"Downstream dependency timeout causing user impact">>
           /\ \E k \in DOMAIN rvReport.timeline :
                 rvReport.timeline[k].phase = "analysis"
           /\ \A k \in DOMAIN rvReport.timeline :
                 rvReport.timeline[k].phase = "analysis" =>
                    rvReport.timeline[k].detail =
                       <<"Downstream dependency timeout causing user impact">>

\* a mixed-case "TimeOut" in an alert that carries a metric label
C17_Witness ==
    /\ Reviewed
    /\ rvAlert.description = <<"disk", "TimeOut">>
    /\ "metric" \in DOMAIN rvAlert.labels
    /\ rvReport.likelyRootCause = TimeoutRootCause

\* the alerts that agree with a on severity, description and labels
Agreeing(a) ==
    {[a EXCEPT !.title = t, !.source = src, !.id = id] :
        t \in {"", "db down", "cache miss"},
        src \in {"grafana", "prometheus"},
        id \in {FormatID("alt", 1), FormatID("alt", 2)}}

\* a report without its timestamps
Untimed(r) ==
    [summary |-> r.summary, likelyRootCause |-> r.likelyRootCause,
     suggestedActions |-> r.suggestedActions, decision |-> r.decision,
     issueTitle |-> r.issueTitle, autoFixPlan |-> r.autoFixPlan,
     timeline |-> [k \in DOMAIN r.timeline |->
                     [phase |-> r.timeline[k].phase,
                      detail |-> r.timeline[k].detail]],
     confidence |-> r.confidence]

ReviewTimes == {5, 6, 7}

\* C18 (as claimed): two alerts that agree on severity, description and
\* labels get reports identical in every field other than the timestamps,
\* whatever their title, source and id.
C18_Deterministic ==
    Reviewed =>
        \A b \in Agreeing(rvAlert) : \A t \in ReviewTimes :
            Untimed(Review(b, t)) = Untimed(rvReport)

\* C18 (amended): such reports are identical in every field other than the
\* timestamps and issueTitle, and in issueTitle too when the decision is not
\* create_issue or the titles agree.
C18_DeterministicUpToTitle ==
    Reviewed =>
        \A b \in Agreeing(rvAlert) : \A t \in ReviewTimes :
            LET r == Review(b, t)
            IN  /\ [Untimed(r) EXCEPT !.issueTitle = << >>]
                      = [Untimed(rvReport) EXCEPT !.issueTitle = << >>]
                /\ (rvReport.decision # "create_issue" \/ b.title = rvAlert.title)
                      => r.issueTitle = rvReport.issueTitle

\* an alert routed to an issue, whose title is quoted in issueTitle
C18_Witness ==
    /\ Reviewed
    /\ rvReport.decision = "create_issue"
    /\ rvAlert.title = "db down"
    /\ \E b \in Agreeing(rvAlert) :
          Review(b, rvNow + 1).issueTitle # rvReport.issueTitle

(***************************************************************************)
(* api.buildServiceAvailability (specification SpecAvail)                  *)
(*                                                                         *)
(* A time.Time is a number of ticks, a time.Duration a signed number of    *)
(* ticks of DurationBits bits: += on a Duration wraps around as Go's int64 *)
(* does, and Time.Sub saturates.  The width is scaled down with the time   *)
(* axis so that the bounded inputs reach the wrap-around that 2^63         *)
(* nanoseconds put at some 3558 incidents spanning a 720 h window.         *)
(* float64 arithmetic is exact rational arithmetic: availabilityPercent    *)
(* is the fraction num / den.                                              *)
(***************************************************************************)
MaxTime == 4
MaxAvIncidents == 2
DurationBits == 3
TicksPerMinute == 2

MaxDuration == 2 ^ (DurationBits - 1) - 1
MinDuration == 0 - 2 ^ (DurationBits - 1)

\* two's-complement wrap-around of a Duration
Wrap(x) == ((x - MinDuration) % (2 ^ DurationBits)) + MinDuration

\* a += b on time.Duration
AddDuration(a, b) == Wrap(a + b)

\* t.Sub(u)
Sub(t, u) ==
    IF t - u > MaxDuration THEN MaxDuration
    ELSE IF t - u < MinDuration THEN MinDuration ELSE t - u

Before(t, u) == t < u
After(t, u) == t > u

\* sort.Strings compares byte-wise
StringRank(n) ==
    CASE n = ""        -> 0
      [] n = "api"     -> 1
      [] n = "db"      -> 2
      [] n = "unknown" -> 3

RECURSIVE SortStrings(_)
SortStrings(S) ==
    IF S = {} THEN << >>
    ELSE LET m == CHOOSE x \in S : \A y \in S : StringRank(x) <= StringRank(y)
         IN  <<m>> \o SortStrings(S \ {m})

\* a period check that lets an empty window through
EmptyPeriod_Strict(periodStart, periodEnd) == Sub(periodEnd, periodStart) < 0

\* server.go 545-546: periodDuration <= 0
EmptyPeriod(periodStart, periodEnd) == Sub(periodEnd, periodStart) <= 0

\* an accumulator that is not seeded from the known services
SeedDowntime_Empty(svcs) == [n \in {} |-> 0]

\* server.go 537-544: an accumulator entry for every known, named service
SeedDowntime(svcs) ==
    [n \in {svcs[i].name : i \in DOMAIN svcs} \ {""} |-> 0]

\* server.go 551-554
AttributedService(in) == IF in.service = "" THEN "unknown" ELSE in.service

\* an end that trusts the status of an incident without resolvedAt
IncidentEnd_ByStatus(in, periodEnd) ==
    IF in.resolvedAt # NoTime THEN in.resolvedAt
    ELSE IF in.status = "resolved" THEN in.createdAt ELSE periodEnd

\* server.go 559-562
IncidentEnd(in, periodEnd) ==
    IF in.resolvedAt # NoTime THEN in.resolvedAt ELSE periodEnd

\* server.go 563-568
Skipped(in, periodStart, periodEnd) ==
    \/ Before(IncidentEnd(in, periodEnd), periodStart)
    \/ After(in.createdAt, periodEnd)
    \/ After(in.createdAt, IncidentEnd(in, periodEnd))

\* server.go 570-580: what the incident adds to its service's downtime
Overlap(in, periodStart, periodEnd) ==
    LET start == IF Before(in.createdAt, periodStart) THEN periodStart
                 ELSE in.createdAt
        end   == IF After(IncidentEnd(in, periodEnd), periodEnd) THEN periodEnd
                 ELSE IncidentEnd(in, periodEnd)
    IN  IF After(end, start) THEN Sub(end, start) ELSE 0

\* an iteration that skips the incident before touching the accumulator
Charge_SkipFirst(acc, in, periodStart, periodEnd) ==
    IF Skipped(in, periodStart, periodEnd) THEN acc
    ELSE LET service == AttributedService(in)
             acc1 == IF service \in DOMAIN acc THEN acc
                     ELSE [n \in DOMAIN acc \cup {service} |->
                              IF n = service THEN 0 ELSE acc[n]]
         IN  [acc1 EXCEPT ![service] =
                 AddDuration(@, Overlap(in, periodStart, periodEnd))]

\* one iteration of the loop over the incidents (server.go 550-581)
Charge(acc, in, periodStart, periodEnd) ==
    LET service == AttributedService(in)
        acc1 == IF service \in DOMAIN acc THEN acc
                ELSE [n \in DOMAIN acc \cup {service} |->
                         IF n = service THEN 0 ELSE acc[n]]
    IN  IF Skipped(in, periodStart, periodEnd) THEN acc1
        ELSE [acc1 EXCEPT ![service] =
                 AddDuration(@, Overlap(in, periodStart, periodEnd))]

\* server.go 592-594
ClampDowntime(d) == IF d < 0 THEN 0 ELSE d

\* the availability left unclamped
ClampAvailability_None(num) == num

\* server.go 596-598
ClampAvailability(num) == IF num < 0 THEN 0 ELSE num

\* server.go 595-598: 100 - downtime/periodDuration*100 as num / den
Availability(downtime, periodDuration) ==
    [num |-> ClampAvailability(100 * periodDuration - 100 * downtime),
     den |-> periodDuration]

\* int(downtime / time.Minute)
DowntimeMinutes(downtime) == downtime \div TicksPerMinute

\* server.go 583-606
BuildAvailabilities(acc, periodStart, periodEnd) ==
    LET names == SortStrings(DOMAIN acc)
    IN  [i \in DOMAIN names |->
            LET downtime == ClampDowntime(acc[names[i]])
            IN  [service |-> names[i],
                 availabilityPercent |->
                     Availability(downtime, Sub(periodEnd, periodStart)),
                 downtimeMinutes |-> DowntimeMinutes(downtime),
                 periodStart |-> periodStart,
                 periodEnd |-> periodEnd]]

Times == 0..MaxTime

ServiceLists ==
    { << >>,
      <<[id |-> FormatID("svc", 1), name |-> "db"]>>,
      <<[id |-> FormatID("svc", 1), name |-> "db"],
        [id |-> FormatID("svc", 2), name |-> "api"]>>,
      <<[id |-> FormatID("svc", 1), name |-> ""],
        [id |-> FormatID("svc", 2), name |-> "unknown"]>> }

\* the statuses an incident handed to the function may carry
AvStatuses == {"investigating", "resolved"}

AvIncidents ==
    [service : {"", "api"}, status : AvStatuses, createdAt : Times,
     resolvedAt : {NoTime} \cup Times]

AvIncidentLists ==
    UNION {[1..n -> AvIncidents] : n \in 0..MaxAvIncidents}

InitAvail ==
    /\ IdleAuth
    /\ IdleStore
    /\ IdleReview
    /\ IdleStatus
    /\ IdleRefresh
    /\ avIn \in [services : ServiceLists, incidents : AvIncidentLists,
                 periodStart : {1, MaxTime - 1}, periodEnd : {1, MaxTime - 1}]
    /\ avPc = "seed"
    /\ avIdx = 0
    /\ serviceDowntime = << >>
    /\ availabilities = << >>

\* server.go 537-548
Seed ==
    /\ avPc = "seed"
    /\ serviceDowntime' = SeedDowntime(avIn.services)
    /\ IF EmptyPeriod(avIn.periodStart, avIn.periodEnd)
       THEN avPc' = "done" /\ avIdx' = avIdx
       ELSE avPc' = "loop" /\ avIdx' = 1
    /\ UNCHANGED <<avIn, availabilities>>
    /\ UNCHANGED <<storeVars, rvVars, spVars, rtVars, auVars>>

\* server.go 550-581
ChargeIncident ==
    /\ avPc = "loop"
    /\ avIdx <= Len(avIn.incidents)
    /\ serviceDowntime' = Charge(serviceDowntime, avIn.incidents[avIdx],
                                 avIn.periodStart, avIn.periodEnd)
    /\ avIdx' = avIdx + 1
    /\ UNCHANGED <<avIn, avPc, availabilities>>
    /\ UNCHANGED <<storeVars, rvVars, spVars, rtVars, auVars>>

\* server.go 583-608
ReturnAvailabilities ==
    /\ avPc = "loop"
    /\ avIdx > Len(avIn.incidents)
    /\ availabilities' = BuildAvailabilities(serviceDowntime, avIn.periodStart,
                                             avIn.periodEnd)
    /\ avPc' = "done"
    /\ UNCHANGED <<avIn, avIdx, serviceDowntime>>
    /\ UNCHANGED <<storeVars, rvVars, spVars, rtVars, auVars>>

NextAvail == Seed \/ ChargeIncident \/ ReturnAvailabilities

SpecAvail == InitAvail /\ [][NextAvail]_vars

\* the loop of server.go 550-581 over a whole collection
RECURSIVE ChargeAll(_, _, _, _)
ChargeAll(acc, incs, periodStart, periodEnd) ==
    IF incs = << >> THEN acc
    ELSE ChargeAll(Charge(acc, Head(incs), periodStart, periodEnd),
                   Tail(incs), periodStart, periodEnd)

\* server.go 536-608: the function from its arguments to its result
buildServiceAvailability(svcs, incs, periodStart, periodEnd) ==
    IF EmptyPeriod(periodStart, periodEnd) THEN << >>
    ELSE BuildAvailabilities(ChargeAll(SeedDowntime(svcs), incs,
                                       periodStart, periodEnd),
                             periodStart, periodEnd)

AvDone == avPc = "done"
ValidPeriod == avIn.periodEnd > avIn.periodStart
PeriodDuration == avIn.periodEnd - avIn.periodStart

Max(a, b) == IF a >= b THEN a ELSE b
Min(a, b) == IF a <= b THEN a ELSE b

\* the incidents attributed to service s
AttributedTo(s) ==
    {i \in DOMAIN avIn.incidents :
        (IF avIn.incidents[i].service = "" THEN "unknown"
         ELSE avIn.incidents[i].service) = s}

\* the part of the window incident i covers
Contribution(i) ==
    LET in   == avIn.incidents[i]
        last == IF in.resolvedAt # NoTime THEN in.resolvedAt ELSE avIn.periodEnd
    IN  IF last < avIn.periodStart \/ in.createdAt > avIn.periodEnd
           \/ in.createdAt > last
        THEN 0
        ELSE Max(0, Min(last, avIn.periodEnd) - Max(in.createdAt, avIn.periodStart))

RECURSIVE SumOver(_)
SumOver(I) ==
    IF I = {} THEN 0
    ELSE LET i == CHOOSE x \in I : TRUE
         IN  Contribution(i) + SumOver(I \ {i})

\* C8 (as claimed): for a window with periodEnd > periodStart each service's
\* downtime is the sum of the clipped overlaps of its incidents (summed, not
\* merged), downtimeMinutes is its floor in minutes and availabilityPercent
\* is 100 - 100 * downtime / periodDuration clamped to [0, 100].
C8_DowntimeIsSum ==
    (AvDone /\ ValidPeriod) =>
        \A k \in DOMAIN availabilities :
            LET e   == availabilities[k]
                sum == SumOver(AttributedTo(e.service))
            IN  /\ serviceDowntime[e.service] = sum
                /\ e.downtimeMinutes = sum \div TicksPerMinute
                /\ e.availabilityPercent.den = PeriodDuration
                /\ e.availabilityPercent.num =
                      Max(0, Min(100 * PeriodDuration,
                                 100 * PeriodDuration - 100 * sum))

\* C9: whatever the inputs, every returned entry has availabilityPercent in
\* [0, 100] and downtimeMinutes >= 0.
C9_OutputRanges ==
    AvDone =>
        \A k \in DOMAIN availabilities :
            LET e == availabilities[k]
            IN  /\ e.availabilityPercent.den > 0
                /\ 0 <= e.availabilityPercent.num
                /\ e.availabilityPercent.num <= 100 * e.availabilityPercent.den
                /\ e.downtimeMinutes >= 0

\* two overlapping incidents of one service exceed the window, one of them
\* resolved after periodEnd, and another incident ends before it starts
C9_Witness ==
    /\ AvDone
    /\ availabilities # << >>
    /\ \E i, j \in DOMAIN avIn.incidents :
          /\ i # j
          /\ avIn.incidents[i].service = avIn.incidents[j].service
          /\ Contribution(i) + Contribution(j) > PeriodDuration
          /\ avIn.incidents[i].resolvedAt > avIn.periodEnd

\* C10: for a window with periodEnd > periodStart, every known service with
\* a non-empty name and no incident attributed to it is in the output with
\* availabilityPercent 100 and downtimeMinutes 0.
C10_IdleServiceFullyAvailable ==
    (AvDone /\ ValidPeriod) =>
        \A i \in DOMAIN avIn.services :
            LET n == avIn.services[i].name
            IN  (n # "" /\ AttributedTo(n) = {}) =>
                    \E k \in DOMAIN availabilities :
                        /\ availabilities[k].service = n
                        /\ availabilities[k].availabilityPercent.num =
                              100 * availabilities[k].availabilityPercent.den
                        /\ availabilities[k].downtimeMinutes = 0

C10_Witness ==
    /\ AvDone /\ ValidPeriod
    /\ \E i \in DOMAIN avIn.services :
          avIn.services[i].name = "db" /\ AttributedTo("db") = {}
    /\ \E k \in DOMAIN availabilities :
          availabilities[k].service = "api" /\ availabilities[k].downtimeMinutes > 0

\* the names the output must list: the known services' non-empty names and
\* every incident's service, an empty one counted as "unknown"
ExpectedNames ==
    ({avIn.services[i].name : i \in DOMAIN avIn.services} \ {""})
    \cup {IF avIn.incidents[i].service = "" THEN "unknown"
          ELSE avIn.incidents[i].service : i \in DOMAIN avIn.incidents}

\* C11: for a window with periodEnd > periodStart the output is sorted
\* strictly ascending by service name and has exactly one entry for each name
\* of the known services (empty names left out) and of the incidents (empty
\* counted as "unknown"), the incidents skipped as outside the window
\* included.
C11_SortedUnionOfNames ==
    (AvDone /\ ValidPeriod) =>
        /\ \A k, l \in DOMAIN availabilities :
              k < l => StringRank(availabilities[k].service)
                         < StringRank(availabilities[l].service)
        /\ {availabilities[k].service : k \in DOMAIN availabilities}
              = ExpectedNames

\* an incident outside the window names a service the store does not know,
\* and its entry sorts before the seeded one
C11_Witness ==
    /\ AvDone /\ ValidPeriod
    /\ Len(availabilities) >= 2
    /\ availabilities[1].service = "api"
    /\ \A i \in DOMAIN avIn.services : avIn.services[i].name # "api"
    /\ \A i \in DOMAIN avIn.incidents :
          /\ avIn.incidents[i].service = "api"
          /\ Contribution(i) = 0
          /\ avIn.incidents[i].createdAt > avIn.periodEnd
    /\ avIn.incidents # << >>

\* C12: when periodEnd - periodStart <= 0 the function returns an empty list
\* whatever services and incidents it is given, and it never fails.
C12_EmptyForEmptyPeriod ==
    (avIn.periodEnd - avIn.periodStart <= 0) =>
        /\ avPc \in {"seed", "done"}
        /\ availabilities = << >>

\* the call has returned for a reversed window with services and incidents
C12_Witness ==
    /\ AvDone
    /\ avIn.periodEnd < avIn.periodStart
    /\ avIn.services # << >>
    /\ avIn.incidents # << >>

(***************************************************************************)
(* api.Server.handlePublicStatusPage (specification SpecStatus)            *)
(*                                                                         *)
(* The periodHours query value is a sequence of characters and             *)
(* strconv.Atoi is computed over it.  Times are counted in hours here:     *)
(* time.Duration(periodHours) * time.Hour is at most 720 h, far from the   *)
(* width of a Duration.  status.Services is the value of                   *)
(* buildServiceAvailability for the window, which SpecAvail covers; the    *)
(* page below carries the window that is handed to it.                     *)
(***************************************************************************)
MaxRawLen == 3
MaxSpIncidents == 2

DefaultPeriodHours == 24
MaxPeriodHours == 24 * 30

RawChars == {"+", "-", "0", "1", "2", "7", "x"}

\* the values of request.URL.Query().Get("periodHours"); << >> when absent
RawValues == UNION {[1..n -> RawChars] : n \in 0..MaxRawLen}

\* ch - '0', -1 for a byte that is not a decimal digit
DigitValue(c) ==
    CASE c = "0" -> 0
      [] c = "1" -> 1
      [] c = "2" -> 2
      [] c = "7" -> 7
      [] OTHER   -> 0 - 1

AtoiError == [ok |-> FALSE, n |-> 0]

\* the digit loop of strconv.Atoi: n = n*10 + ch, an error on a non-digit
RECURSIVE ParseDigits(_, _)
ParseDigits(s, n) ==
    IF s = << >> THEN [ok |-> TRUE, n |-> n]
    ELSE IF DigitValue(Head(s)) < 0 THEN AtoiError
    ELSE ParseDigits(Tail(s), n * 10 + DigitValue(Head(s)))

\* strconv.Atoi: an optional sign, then one or more decimal digits
Atoi(s) ==
    IF s = << >> THEN AtoiError
    ELSE LET body == IF Head(s) \in {"+", "-"} THEN Tail(s) ELSE s
             r    == ParseDigits(body, 0)
         IN  IF body = << >> \/ ~r.ok THEN AtoiError
             ELSE [ok |-> TRUE, n |-> IF Head(s) = "-" THEN 0 - r.n ELSE r.n]

\* a period that takes whatever number the query holds
PeriodHours_Unchecked(raw) ==
    IF raw # << >> /\ Atoi(raw).ok THEN Atoi(raw).n ELSE DefaultPeriodHours

\* server.go 76-82
PeriodHours(raw) ==
    IF raw # << >> /\ Atoi(raw).ok /\ Atoi(raw).n > 0
          /\ Atoi(raw).n <= MaxPeriodHours
    THEN Atoi(raw).n
    ELSE DefaultPeriodHours

\* server.go 83: now.Add(-time.Duration(periodHours) * time.Hour)
PeriodStart(now, raw) == now - PeriodHours(raw)

\* server.go 95
IsOpen(in) == in.status = "investigating" \/ in.status = "identified"

\* server.go 98-113
StatusPageIncident(in) ==
    [id |-> in.id, service |-> in.service, severity |-> in.severity,
     status |-> in.status, declaredAt |-> in.createdAt]

\* an update in which every open incident sets the status
NextOverall_Downgrade(overall, severity) ==
    IF severity = SeverityCritical THEN "major_outage"
    ELSE "degraded_performance"

\* server.go 115-119
NextOverall(overall, severity) ==
    IF severity = SeverityCritical THEN "major_outage"
    ELSE IF overall = "operational" THEN "degraded_performance"
    ELSE overall

SpIncidents ==
    [service : {"api"}, severity : Severities,
     status : {"investigating", "identified", "resolved"}, createdAt : {1}]

\* what s.store.Incidents() returns: ids in insertion order
SpIncidentLists ==
    UNION {{[i \in 1..n |->
               [id |-> FormatID("inc", i), service |-> f[i].service,
                severity |-> f[i].severity, status |-> f[i].status,
                createdAt |-> f[i].createdAt]] : f \in [1..n -> SpIncidents]}
           : n \in 0..MaxSpIncidents}

InitStatus ==
    /\ IdleAuth
    /\ IdleStore
    /\ IdleReview
    /\ IdleAvail
    /\ IdleRefresh
    /\ spIn \in [method : {"GET", "POST"}, raw : RawValues, now : {800},
                 incidents : SpIncidentLists]
    /\ spIn.method = "POST" => (spIn.raw = << >> /\ spIn.incidents = << >>)
    /\ spPc = "start"
    /\ spIdx = 0
    /\ spStatus = None
    /\ spResp = 0

\* server.go 59-62
RejectMethod ==
    /\ spPc = "start"
    /\ spIn.method # "GET"
    /\ spPc' = "failed"
    /\ spResp' = 405
    /\ UNCHANGED <<spIn, spIdx, spStatus>>
    /\ UNCHANGED <<storeVars, rvVars, avVars, rtVars, auVars>>

\* server.go 64-73: s.store.Incidents() or s.store.Services() fails
LoadFails ==
    /\ spPc = "start"
    /\ spIn.method = "GET"
    /\ spPc' = "failed"
    /\ spResp' = 500
    /\ UNCHANGED <<spIn, spIdx, spStatus>>
    /\ UNCHANGED <<storeVars, rvVars, avVars, rtVars, auVars>>

\* server.go 64-92
StartStatusPage ==
    /\ spPc = "start"
    /\ spIn.method = "GET"
    /\ spStatus' = [overallStatus |-> "operational",
                    updatedAt |-> spIn.now,
                    periodStart |-> PeriodStart(spIn.now, spIn.raw),
                    periodEnd |-> spIn.now,
                    incidents |-> << >>]
    /\ spPc' = "loop"
    /\ spIdx' = 1
    /\ UNCHANGED <<spIn, spResp>>
    /\ UNCHANGED <<storeVars, rvVars, avVars, rtVars, auVars>>

\* server.go 94-120: one iteration of the loop over the incidents
VisitIncident ==
    /\ spPc = "loop"
    /\ spIdx <= Len(spIn.incidents)
    /\ LET incident == spIn.incidents[spIdx]
       IN  IF ~IsOpen(incident) THEN spStatus' = spStatus
           ELSE spStatus' =
                  [spStatus EXCEPT
                     !.incidents = Append(@, StatusPageIncident(incident)),
                     !.overallStatus = NextOverall(@, incident.severity)]
    /\ spIdx' = spIdx + 1
    /\ UNCHANGED <<spIn, spPc, spResp>>
    /\ UNCHANGED <<storeVars, rvVars, avVars, rtVars, auVars>>

\* server.go 122
WriteStatusPage ==
    /\ spPc = "loop"
    /\ spIdx > Len(spIn.incidents)
    /\ spPc' = "done"
    /\ spResp' = 200
    /\ UNCHANGED <<spIn, spIdx, spStatus>>
    /\ UNCHANGED <<storeVars, rvVars, avVars, rtVars, auVars>>

NextStatus ==
    \/ RejectMethod
    \/ LoadFails
    \/ StartStatusPage
    \/ VisitIncident
    \/ WriteStatusPage

SpecStatus == InitStatus /\ [][NextStatus]_vars

SpDone == spPc = "done"

\* the open incidents among those the store returned
OpenIncidents ==
    {i \in DOMAIN spIn.incidents :
        spIn.incidents[i].status \in {"investigating", "identified"}}

CriticalOpen ==
    {i \in OpenIncidents : spIn.incidents[i].severity = SeverityCritical}

\* C13: the overall status is "major_outage" iff some open incident
\* (investigating or identified) is critical, "degraded_performance" iff
\* there are open incidents and none is critical, "operational" otherwise;
\* this depends on the set of incidents only, not on their order; no step
\* takes "major_outage" back; and the public list holds exactly the open
\* incidents.
C13_OverallStatus ==
    /\ [](SpDone =>
            /\ spStatus.overallStatus = "major_outage" <=> CriticalOpen # {}
            /\ spStatus.overallStatus = "degraded_performance"
                  <=> (OpenIncidents # {} /\ CriticalOpen = {})
            /\ spStatus.overallStatus = "operational" <=> OpenIncidents = {}
            /\ {spStatus.incidents[k].id : k \in DOMAIN spStatus.incidents}
                  = {spIn.incidents[i].id : i \in OpenIncidents}
            /\ Len(spStatus.incidents) = Cardinality(OpenIncidents))
    /\ [][(spPc = "loop" /\ spStatus.overallStatus = "major_outage")
             => spStatus'.overallStatus = "major_outage"]_vars

\* a critical open incident was followed by an open non-critical one
C13_Witness ==
    /\ SpDone
    /\ Len(spIn.incidents) = 2
    /\ OpenIncidents = {1, 2}
    /\ CriticalOpen = {1}
    /\ spStatus.overallStatus = "major_outage"

\* raw without its optional sign
Numeral(raw) ==
    IF raw # << >> /\ raw[1] \in {"+", "-"} THEN SubSeq(raw, 2, Len(raw))
    ELSE raw

\* raw is the decimal notation of an integer
IsInteger(raw) ==
    /\ Numeral(raw) # << >>
    /\ \A i \in DOMAIN Numeral(raw) : Numeral(raw)[i] \in {"0", "1", "2", "7"}

DigitOf(c) == CASE c = "0" -> 0 [] c = "1" -> 1 [] c = "2" -> 2 [] c = "7" -> 7

\* the sum of digit * 10^position over the last k digits of the numeral u
RECURSIVE Positional(_, _)
Positional(u, k) ==
    IF k = 0 THEN 0
    ELSE DigitOf(u[Len(u) - k + 1]) * 10 ^ (k - 1) + Positional(u, k - 1)

\* the integer that raw denotes
IntegerOf(raw) ==
    LET v == Positional(Numeral(raw), Len(Numeral(raw)))
    IN  IF raw[1] = "-" THEN 0 - v ELSE v

\* C14: the window is [now - periodHours h, now] when periodHours is an
\* integer in 1..720 and [now - 24 h, now] in every other case (absent,
\* not an integer, <= 0, > 720); its duration is strictly positive.
C14_EffectiveWindow ==
    spPc \in {"loop", "done"} =>
        /\ spStatus.periodEnd = spIn.now
        /\ spStatus.periodStart =
              (IF IsInteger(spIn.raw) /\ IntegerOf(spIn.raw) \in 1..720
               THEN spIn.now - IntegerOf(spIn.raw)
               ELSE spIn.now - 24)
        /\ spStatus.periodEnd - spStatus.periodStart > 0

\* a page was served for periodHours=721, one above the range
C14_Witness ==
    /\ SpDone
    /\ spIn.raw = <<"7", "2", "1">>
    /\ spStatus.periodStart = spIn.now - 24

(***************************************************************************)
(* Properties of CreateIncident (specification SpecStore)                  *)
(***************************************************************************)
\* C19 (as claimed): every incident persisted through CreateIncident, in
\* either store, has resolvedAt set iff its status is "resolved", whatever
\* status and resolvedAt the caller passed in.
C19_ResolvedAtIffResolved ==
    \A i \in DOMAIN incidents :
        incidents[i].resolvedAt # NoTime <=> incidents[i].status = "resolved"

(***************************************************************************)
(* auth.RefreshStore (specification SpecRefresh)                           *)
(*                                                                         *)
(* Each GORM statement is one atomic step, and each may return an error.   *)
(* RotateRefreshToken is three statements (First, Update, Create), so      *)
(* calls interleave between them; IssueRefreshToken and                    *)
(* RevokeRefreshToken are one statement each.  generateToken returns 32    *)
(* random bytes: a value that is in no row and that no client holds.  A    *)
(* client presents a token it was given or one that was never issued.      *)
(* rtLog.last describes the call that returned last: the operation, the   *)
(* token, whether it returned nil, and what the table held for the token   *)
(* when the call was made.  rtLog.retired collects the tokens of the       *)
(* calls that rotated or revoked a stored token and returned nil, and      *)
(* rtLog.rotations the pairs of a token and the token a successful         *)
(* RotateRefreshToken returned for it.                                     *)
(***************************************************************************)
MaxTokens == 3
MaxRtClock == 3
RotatedTTL == 2

IssueTTLs == {0, 2}

\* the n-th value generateToken returns
Generated(n) == <<"tok", n>>

\* a token that was never issued
Forged == <<"forged", 0>>

\* hashToken: hex(sha256(raw))
hashToken(raw) == <<"sha256", raw>>

\* generateToken
generateToken == Generated(Len(tokens) + 1)

\* the tokens a client can present
Presentable == {Generated(n) : n \in 1..Len(tokens)} \cup {Forged}

\* Where("token_hash = ?", h): the rows of the table with that hash
RowsOf(raw) == {i \in DOMAIN tokens : tokens[i].tokenHash = hashToken(raw)}

\* First(&rt): the first matching row, 0 for ErrRecordNotFound
First(raw) ==
    IF RowsOf(raw) = {} THEN 0
    ELSE CHOOSE i \in RowsOf(raw) : \A j \in RowsOf(raw) : i <= j

\* refresh.go 54
IsRevoked(rt) == rt.revokedAt # NoTime

\* refresh.go 57: time.Now().After(rt.ExpiresAt)
IsExpired(rt, now) == now > rt.expiresAt

\* a validation that forgets the revocation
Rejected_ExpiryOnly(rt, now) == IsExpired(rt, now)

\* refresh.go 54-59
Rejected(rt, now) == IsRevoked(rt) \/ IsExpired(rt, now)

\* what the table holds for raw
StateOf(raw) ==
    IF First(raw) = 0 THEN "unknown"
    ELSE IF IsRevoked(tokens[First(raw)]) THEN "revoked"
    ELSE IF IsExpired(tokens[First(raw)], rtClock) THEN "expired"
    ELSE "valid"

\* the log once a call on raw has returned
Logged(op, raw, ok, atCall) ==
    [last |-> [op |-> op, raw |-> raw, ok |-> ok, atCall |-> atCall],
     retired |-> IF ok /\ atCall # "unknown"
                 THEN rtLog.retired \cup {raw} ELSE rtLog.retired,
     rotations |-> IF ok /\ op = "rotate"
                   THEN rtLog.rotations \cup {<<raw, generateToken>>}
                   ELSE rtLog.rotations]

\* RotateRefreshToken returns: the caller is idle again
Finish(p, ok) ==
    /\ rtLog' = Logged("rotate", rtProcs[p].raw, ok, rtProcs[p].atCall)
    /\ rtProcs' = [rtProcs EXCEPT ![p] = IdleCaller]

InitRefresh ==
    /\ IdleAuth
    /\ IdleStore
    /\ IdleReview
    /\ IdleAvail
    /\ IdleStatus
    /\ IdleRefresh

\* refresh.go 27-43
IssueRefreshToken ==
    /\ Len(tokens) + Cardinality({q \in Procs : rtProcs[q].op = "rotate"})
          < MaxTokens
    /\ \E ttl \in IssueTTLs, fail \in BOOLEAN :
         IF fail THEN tokens' = tokens
         ELSE tokens' = Append(tokens,
                           [userID |-> "u1",
                            tokenHash |-> hashToken(generateToken),
                            expiresAt |-> rtClock + ttl,
                            revokedAt |-> NoTime])
    /\ UNCHANGED <<rtClock, rtProcs, rtLog>>
    /\ UNCHANGED <<storeVars, rvVars, avVars, spVars, auVars>>

\* a client calls RotateRefreshToken(raw)
CallRotate(p) ==
    /\ rtProcs[p].pc = "idle"
    /\ \A q \in Procs : q < p => rtProcs[q].pc # "idle"
    /\ Len(tokens) + Cardinality({q \in Procs : rtProcs[q].op = "rotate"})
          < MaxTokens
    /\ \E raw \in Presentable :
         rtProcs' = [rtProcs EXCEPT ![p] =
                       [op |-> "rotate", pc |-> "lookup", raw |-> raw,
                        row |-> 0, atCall |-> StateOf(raw)]]
    /\ UNCHANGED <<tokens, rtClock, rtLog>>
    /\ UNCHANGED <<storeVars, rvVars, avVars, spVars, auVars>>

\* refresh.go 48-59
RotateLookup(p) ==
    /\ rtProcs[p].pc = "lookup"
    /\ \E fail \in BOOLEAN :
         LET i == First(rtProcs[p].raw)
         IN  IF fail \/ i = 0 \/ Rejected(tokens[i], rtClock)
             THEN Finish(p, FALSE)
             ELSE /\ rtProcs' = [rtProcs EXCEPT ![p] =
                                   [@ EXCEPT !.pc = "revoke", !.row = i]]
                  /\ UNCHANGED rtLog
    /\ UNCHANGED <<tokens, rtClock>>
    /\ UNCHANGED <<storeVars, rvVars, avVars, spVars, auVars>>

\* refresh.go 62-65
RotateRevoke(p) ==
    /\ rtProcs[p].pc = "revoke"
    /\ \E fail \in BOOLEAN :
         IF fail THEN Finish(p, FALSE) /\ UNCHANGED tokens
         ELSE /\ tokens' = [tokens EXCEPT ![rtProcs[p].row].revokedAt = rtClock]
              /\ rtProcs' = [rtProcs EXCEPT ![p].pc = "create"]
              /\ UNCHANGED rtLog
    /\ UNCHANGED rtClock
    /\ UNCHANGED <<storeVars, rvVars, avVars, spVars, auVars>>

\* refresh.go 68-81
RotateCreate(p) ==
    /\ rtProcs[p].pc = "create"
    /\ \E fail \in BOOLEAN :
         IF fail THEN Finish(p, FALSE) /\ UNCHANGED tokens
         ELSE /\ tokens' = Append(tokens,
                             [userID |-> tokens[rtProcs[p].row].userID,
                              tokenHash |-> hashToken(generateToken),
                              expiresAt |-> rtClock + RotatedTTL,
                              revokedAt |-> NoTime])
              /\ Finish(p, TRUE)
    /\ UNCHANGED rtClock
    /\ UNCHANGED <<storeVars, rvVars, avVars, spVars, auVars>>

\* refresh.go 85-90
RevokeRefreshToken(p) ==
    /\ rtProcs[p].pc = "idle"
    /\ \A q \in Procs : q < p => rtProcs[q].pc # "idle"
    /\ \E raw \in Presentable, fail \in BOOLEAN :
         /\ tokens' = IF fail THEN tokens
                      ELSE [i \in DOMAIN tokens |->
                              IF i \in RowsOf(raw)
                              THEN [tokens[i] EXCEPT !.revokedAt = rtClock]
                              ELSE tokens[i]]
         /\ rtLog' = Logged("revoke", raw, ~fail, StateOf(raw))
    /\ UNCHANGED <<rtClock, rtProcs>>
    /\ UNCHANGED <<storeVars, rvVars, avVars, spVars, auVars>>

\* time passes
RtTick ==
    /\ rtClock < MaxRtClock
    /\ rtClock' = rtClock + 1
    /\ UNCHANGED <<tokens, rtProcs, rtLog>>
    /\ UNCHANGED <<storeVars, rvVars, avVars, spVars, auVars>>

NextRefresh ==
    \/ IssueRefreshToken
    \/ RtTick
    \/ \E p \in Procs :
        \/ CallRotate(p)
        \/ RotateLookup(p)
        \/ RotateRevoke(p)
        \/ RotateCreate(p)
        \/ RevokeRefreshToken(p)

SpecRefresh == InitRefresh /\ [][NextRefresh]_vars

\* C20: once RotateRefreshToken(t) has succeeded or RevokeRefreshToken(t)
\* has revoked t, t stays revoked for ever; every RotateRefreshToken(t) made
\* after that fails, and so does one made on an expired or an unknown token;
\* such a call issues no token and leaves the token table unchanged.
C20_RotationEnforced ==
    /\ [](\A t \in rtLog.retired :
             /\ RowsOf(t) # {}
             /\ \A i \in RowsOf(t) : tokens[i].revokedAt # NoTime)
    /\ []((rtLog.last.op = "rotate"
             /\ rtLog.last.atCall \in {"revoked", "expired", "unknown"})
          => ~rtLog.last.ok)
    /\ [][\A p \in Procs :
            (rtProcs[p].op = "rotate" /\ rtProcs[p].atCall # "valid"
               /\ rtProcs'[p] # rtProcs[p])
            => tokens' = tokens]_vars

\* a token was rotated, its successor is stored, and a later rotation of the
\* old token has been refused
C20_Witness ==
    /\ rtLog.last.op = "rotate"
    /\ rtLog.last.atCall = "revoked"
    /\ ~rtLog.last.ok
    /\ rtLog.last.raw \in rtLog.retired
    /\ Len(tokens) >= 2
    /\ \E i \in DOMAIN tokens : tokens[i].revokedAt = NoTime

(***************************************************************************)
(* middleware.RequireAuth and middleware.RequirePermission                 *)
(* (specification SpecAuth)                                                *)
(*                                                                         *)
(* The Authorization header is what strings.SplitN(h, " ", 2) sees of it:  *)
(* the text before the first space (scheme) and what follows it (rest).    *)
(* rest.kind is "none" when the header has no space, "empty" when nothing  *)
(* follows the space, "token" when a JWT follows and "junk" when the JWT   *)
(* is followed by more text.  A JWT is its signing algorithm, the key it   *)
(* was signed with, whether it has expired, and the roles it claims.       *)
(***************************************************************************)
MaxRoles == 2

Secret == "secret"

RoleNames == {"Viewer", "Responder", "IncidentCommander", "Admin", "Ghost"}

Perms == {"incident:read", "incident:create", "postmortem:publish",
          "anything:at:all"}

RoleLists == UNION {[1..n -> RoleNames] : n \in 0..MaxRoles}

JWTs == [alg : {"HS256", "HS512", "RS256", "none"}, key : {Secret, "other"},
         expired : BOOLEAN, roles : RoleLists]

NoJWT == [alg |-> "none", key |-> "other", expired |-> TRUE, roles |-> << >>]

AuthHeaders ==
    {[scheme |-> "", rest |-> [kind |-> "none", jwt |-> NoJWT]],
     [scheme |-> "Bearer", rest |-> [kind |-> "none", jwt |-> NoJWT]],
     [scheme |-> "Bearer", rest |-> [kind |-> "empty", jwt |-> NoJWT]]}
    \cup [scheme : {"Bearer", "bearer", "BEARER", "Basic"},
          rest : [kind : {"token"}, jwt : JWTs]]
    \cup [scheme : {"Bearer"},
          rest : [kind : {"junk"},
                  jwt : {j \in JWTs : j.roles = <<"Admin">>}]]

\* strings.EqualFold(a, b) on the schemes above
EqualFold(a, b) ==
    LET fold(x) == IF x \in {"Bearer", "BEARER"} THEN "bearer" ELSE x
    IN  fold(a) = fold(b)

\* the empty string as a token
EmptyToken == [kind |-> "empty", jwt |-> NoJWT]

\* auth.go 76-86
extractBearerToken(h) ==
    IF h.scheme = "" /\ h.rest.kind = "none" THEN EmptyToken
    ELSE IF h.rest.kind = "none" \/ ~EqualFold(h.scheme, "bearer")
         THEN EmptyToken
         ELSE h.rest

\* token.go 41-57: nil claims stand for the error
ParseAccessToken(token, secret) ==
    IF /\ token.kind = "token"
       /\ token.jwt.alg \in {"HS256", "HS512"}
       /\ token.jwt.key = secret
       /\ ~token.jwt.expired
    THEN [roles |-> token.jwt.roles, present |-> TRUE]
    ELSE NoClaims

\* auth.go 90-118
rolePermissions(role) ==
    CASE role = "Viewer" ->
           <<"health:read", "alert:read", "incident:read", "postmortem:read",
             "slo:read", "oncall:read">>
      [] role = "Responder" ->
           <<"health:read", "alert:read", "incident:read", "incident:create",
             "incident:update", "incident:comment", "postmortem:read",
             "slo:read", "oncall:read", "oncall:update">>
      [] role = "IncidentCommander" ->
           <<"health:read", "alert:read", "incident:read", "incident:create",
             "incident:update", "incident:reopen", "incident:comment",
             "postmortem:read", "postmortem:update", "postmortem:publish",
             "slo:read", "oncall:read", "oncall:update", "action_item:read",
             "action_item:update">>
      [] role = "Admin" -> <<"*">>
      [] OTHER -> << >>

\* a check that knows no wildcard
hasPermission_ExactOnly(roles, perm) ==
    \E i \in DOMAIN roles :
        \E k \in DOMAIN rolePermissions(roles[i]) :
            rolePermissions(roles[i])[k] = perm

\* auth.go 120-130
hasPermission(roles, perm) ==
    \E i \in DOMAIN roles :
        \E k \in DOMAIN rolePermissions(roles[i]) :
            \/ rolePermissions(roles[i])[k] = "*"
            \/ rolePermissions(roles[i])[k] = perm

InitAuth ==
    /\ IdleStore
    /\ IdleReview
    /\ IdleAvail
    /\ IdleStatus
    /\ IdleRefresh
    /\ auReq \in [header : AuthHeaders, perm : Perms]
    /\ auPc = "auth"
    /\ auClaims = NoClaims
    /\ auResp = 0

\* auth.go 22-39
RequireAuth ==
    /\ auPc = "auth"
    /\ LET token  == extractBearerToken(auReq.header)
           claims == ParseAccessToken(token, Secret)
       IN  IF token = EmptyToken \/ ~claims.present
           THEN auPc' = "rejected" /\ auResp' = 401 /\ auClaims' = auClaims
           ELSE auPc' = "perm" /\ auResp' = auResp /\ auClaims' = claims
    /\ UNCHANGED auReq
    /\ UNCHANGED <<storeVars, rvVars, avVars, spVars, rtVars>>

\* auth.go 58-72
RequirePermission ==
    /\ auPc = "perm"
    /\ IF ~auClaims.present
       THEN auPc' = "rejected" /\ auResp' = 401
       ELSE IF ~hasPermission(auClaims.roles, auReq.perm)
            THEN auPc' = "rejected" /\ auResp' = 403
            ELSE auPc' = "handler" /\ auResp' = auResp
    /\ UNCHANGED <<auReq, auClaims>>
    /\ UNCHANGED <<storeVars, rvVars, avVars, spVars, rtVars>>

\* next.ServeHTTP(w, r): the wrapped handler runs
ServeHTTP ==
    /\ auPc = "handler"
    /\ auPc' = "served"
    /\ auResp' = 200
    /\ UNCHANGED <<auReq, auClaims>>
    /\ UNCHANGED <<storeVars, rvVars, avVars, spVars, rtVars>>

NextAuth == RequireAuth \/ RequirePermission \/ ServeHTTP

SpecAuth == InitAuth /\ [][NextAuth]_vars

\* the request carries a valid token: "Bearer <jwt>" in any letter case, the
\* JWT HMAC-signed with the server's secret and not expired
ValidToken ==
    /\ auReq.header.scheme \in {"Bearer", "bearer", "BEARER"}
    /\ auReq.header.rest.kind = "token"
    /\ auReq.header.rest.jwt.alg \in {"HS256", "HS512"}
    /\ auReq.header.rest.jwt.key = "secret"
    /\ ~auReq.header.rest.jwt.expired

\* the permissions of the built-in roles; Admin holds the wildcard
Granted(role) ==
    CASE role = "Viewer" -> {"incident:read"}
      [] role = "Responder" -> {"incident:read", "incident:create"}
      [] role = "IncidentCommander" ->
           {"incident:read", "incident:create", "postmortem:publish"}
      [] role = "Admin" -> Perms
      [] OTHER -> {}

RoleGrants ==
    \E i \in DOMAIN auReq.header.rest.jwt.roles :
        auReq.perm \in Granted(auReq.header.rest.jwt.roles[i])

\* C21: the wrapped handler runs only when the request carries a valid token
\* and one of the caller's roles grants perm, exactly or through Admin's
\* wildcard; otherwise it does not run and the response is 401 for a missing
\* or invalid token and 403 when no role grants perm.
C21_AuthorizedOnly ==
    /\ auPc \in {"handler", "served"} => (ValidToken /\ RoleGrants)
    /\ auPc \in {"served", "rejected"} =>
          /\ auPc = "served" <=> (ValidToken /\ RoleGrants)
          /\ ~ValidToken => auResp = 401
          /\ (ValidToken /\ ~RoleGrants) => auResp = 403

\* an Admin was served a permission no role lists
C21_Witness ==
    /\ auPc = "served"
    /\ auReq.perm = "anything:at:all"
    /\ auReq.header.scheme = "bearer"
    /\ auReq.header.rest.jwt.roles = <<"Ghost", "Admin">>

(***************************************************************************)
(* Further properties of handleCreateAlert (specification Spec)            *)
(***************************************************************************)
CallOrder == <<"SaveAlert", "UpdateAlertTriage", "EnsureService",
               "CreateIncident", "UpdateAlertStatus">>

\* C22: the store calls of an invocation occur in the order SaveAlert,
\* UpdateAlertTriage, EnsureService, CreateIncident, UpdateAlertStatus, each
\* at most once; the last three only when the decision is start_incident;
\* and once inserted, a persisted alert changes only in its triage report and
\* its status.
C22_CallOrder ==
    /\ [](\A p \in Procs :
            /\ Len(calls[p]) <= Len(CallOrder)
            /\ calls[p] = SubSeq(CallOrder, 1, Len(calls[p]))
            /\ Len(calls[p]) >= 3 => procs[p].report.decision = "start_incident")
    /\ [][/\ Len(alerts') >= Len(alerts)
          /\ \A i \in DOMAIN alerts :
                [alerts'[i] EXCEPT !.triage = NoReport, !.status = ""]
                   = [alerts[i] EXCEPT !.triage = NoReport, !.status = ""]]_vars

\* an invocation has made all five calls and its alert is stored
C22_Witness ==
    \E p \in Procs :
        /\ Succeeded(p)
        /\ calls[p] = CallOrder
        /\ \E i \in DOMAIN alerts :
              /\ alerts[i].id = procs[p].alert.id
              /\ alerts[i].status = "incident_open"
              /\ alerts[i].triage.decision = "start_incident"

\* the service the orchestrator derives from the alert's labels
ExpectedService(a) ==
    IF "service" \in DOMAIN a.labels /\ a.labels["service"] # ""
    THEN a.labels["service"] ELSE "unknown"

\* C23: when the decision is start_incident the service passed to
\* EnsureService and CreateIncident is labels["service"], or "unknown" when
\* the label is absent or blank, and the created incident has the title
\* "Auto-created incident for triaged alert: " + alert.title, status
\* "investigating", statusPageURL "/status/" + alert.id, the alert's severity
\* and the alert's id as alertID.
C23_IncidentFields ==
    /\ \A p \in Procs :
          (procs[p].kind = "alert" /\ Len(calls[p]) >= 3) =>
              procs[p].service = ExpectedService(procs[p].alert)
    /\ \A i \in DOMAIN incidents :
          \E k \in DOMAIN alerts :
              /\ incidents[i].alertID = alerts[k].id
              /\ incidents[i].service = ExpectedService(alerts[k])
              /\ incidents[i].title =
                    <<"Auto-created incident for triaged alert: ", alerts[k].title>>
              /\ incidents[i].status = "investigating"
              /\ incidents[i].statusPageURL = <<"/status/", alerts[k].id>>
              /\ incidents[i].severity = alerts[k].severity

\* incidents were created for an alert with a blank service label and for
\* one that names its service
C23_Witness ==
    /\ \E i \in DOMAIN incidents, k \in DOMAIN alerts :
          /\ incidents[i].alertID = alerts[k].id
          /\ "service" \in DOMAIN alerts[k].labels
          /\ alerts[k].labels["service"] = ""
          /\ incidents[i].service = "unknown"
    /\ \E i \in DOMAIN incidents : incidents[i].service = "api"

(***************************************************************************)
(* Further properties of Review (specification SpecReview)                 *)
(***************************************************************************)
\* C24 (as claimed): for a description without "timeout", likelyRootCause is
\* the metric-anomaly text only when labels["metric"] is present and
\* non-empty; when the label is absent or empty it is the default
\* "Insufficient telemetry for root-cause confidence".
C24_MetricNonEmpty ==
    (Reviewed /\ ~Mentions(rvAlert.description, {"timeout", "TIMEOUT", "TimeOut"}))
        => IF "metric" \in DOMAIN rvAlert.labels /\ rvAlert.labels["metric"] # ""
           THEN rvReport.likelyRootCause =
                   <<"Anomaly detected in metric ", "\"",
                     rvAlert.labels["metric"], "\"",
                     "; likely saturation/regression">>
           ELSE rvReport.likelyRootCause =
                   <<"Insufficient telemetry for root-cause confidence">>

\* C25: the timeline has exactly four entries, with phases received, context,
\* analysis, decision in that order, stamped 5, 3, 1 and 0 seconds before
\* reviewedAt; the analysis detail is likelyRootCause and the decision detail
\* is "Decision: " followed by the final decision.
C25_Timeline ==
    Reviewed =>
        LET tl == rvReport.timeline
        IN  /\ Len(tl) = 4
            /\ [k \in 1..4 |-> tl[k].phase]
                  = <<"received", "context", "analysis", "decision">>
            /\ [k \in 1..4 |-> rvReport.reviewedAt - tl[k].timestamp]
                  = <<5, 3, 1, 0>>
            /\ \A k \in 1..3 : tl[k].timestamp < tl[k + 1].timestamp
            /\ tl[3].detail = rvReport.likelyRootCause
            /\ tl[4].detail = <<"Decision: ", rvReport.decision>>

\* the decision entry names a decision that overrode the first override
C25_Witness ==
    /\ Reviewed
    /\ rvAlert.description = <<"customer", "retry">>
    /\ rvAlert.severity = "warning"
    /\ rvReport.timeline[4].detail = <<"Decision: ", "auto_fix">>
    /\ rvReport.timeline[4].timestamp = rvNow

(***************************************************************************)
(* Store invariants under concurrent invocations (specification Spec)      *)
(***************************************************************************)
\* C26: under any interleaving of concurrent invocations and any store-call
\* failure, every incident the orchestrator created has the id of a persisted
\* alert whose stored triage decision is start_incident as its alertID, has
\* status "investigating" and no resolvedAt, and no two incidents share an
\* alertID.
C26_IncidentsOfTriagedAlerts ==
    /\ \A i \in DOMAIN incidents :
          /\ \E k \in DOMAIN alerts :
                /\ alerts[k].id = incidents[i].alertID
                /\ alerts[k].triage.decision = "start_incident"
          /\ incidents[i].status = "investigating"
          /\ incidents[i].resolvedAt = NoTime
    /\ \A i, j \in DOMAIN incidents :
          incidents[i].alertID = incidents[j].alertID => i = j

\* two invocations have each created an incident and a third store call of
\* one of them has failed
C26_Witness ==
    /\ Len(incidents) = 2
    /\ incidents[1].alertID # incidents[2].alertID
    /\ \E p \in Procs : Failed(p) /\ LastCall(p) = "UpdateAlertStatus"

\* the invocation that inserted the alert with this id
InsertedBy(id) ==
    {p \in Procs : procs[p].kind = "alert" /\ procs[p].alert.id = id}

\* C27: for alerts submitted with an empty or "received" status, a persisted
\* alert with status "incident_open" has an incident whose alertID is its id:
\* the incident is inserted before the status is raised.
C27_OpenAlertHasIncident ==
    \A k \in DOMAIN alerts :
        /\ InsertedBy(alerts[k].id) # {}
        /\ \A p \in InsertedBy(alerts[k].id) :
              (procs[p].submitted \in {"", "received"}
                 /\ alerts[k].status = "incident_open")
              => IncidentsOf(alerts[k].id) # {}

\* an alert submitted without a status is at incident_open, and another
\* invocation has failed at CreateIncident
C27_Witness ==
    /\ \E k \in DOMAIN alerts : \E p \in InsertedBy(alerts[k].id) :
          /\ procs[p].submitted = ""
          /\ alerts[k].status = "incident_open"
    /\ \E q \in Procs : Failed(q) /\ LastCall(q) = "CreateIncident"

(***************************************************************************)
(* Further properties of the store (specification SpecStore)               *)
(***************************************************************************)
\* C28: every persisted incident has a non-empty service name for which a
\* Service record exists, also when CreateIncident is called without a prior
\* EnsureService.
C28_IncidentServiceExists ==
    \A i \in DOMAIN incidents :
        /\ incidents[i].service # ""
        /\ \E k \in DOMAIN services : services[k].name = incidents[i].service

\* an incident submitted with an empty service is stored, and no
\* EnsureService call has returned
C28_Witness ==
    /\ ensured = {}
    /\ \E i \in DOMAIN incidents : incidents[i].service = "unknown"
    /\ \E k \in DOMAIN services : services[k].name = "unknown"

(***************************************************************************)
(* What the availability depends on (specification SpecAvail)              *)
(***************************************************************************)
\* the collections that differ from incs only in order and in the fields
\* other than service, createdAt and resolvedAt
Variants(incs) ==
    {[i \in DOMAIN incs |-> [incs[perm[i]] EXCEPT !.status = st[i]]] :
        perm \in Permutations(DOMAIN incs),
        st \in [DOMAIN incs -> AvStatuses]}

\* incs with every missing resolvedAt replaced by periodEnd
ResolvedAtEnd(incs, periodEnd) ==
    [i \in DOMAIN incs |->
        IF incs[i].resolvedAt = NoTime
        THEN [incs[i] EXCEPT !.resolvedAt = periodEnd] ELSE incs[i]]

\* C29: the result depends only on each incident's service, createdAt and
\* resolvedAt: a collection that differs only in the other fields or in order
\* yields the same result, and an incident without resolvedAt is charged
\* through periodEnd whatever its status.
C29_DependsOnServiceAndTimes ==
    AvDone =>
        /\ \A other \in Variants(avIn.incidents) :
              buildServiceAvailability(avIn.services, other, avIn.periodStart,
                                       avIn.periodEnd) = availabilities
        /\ \A other \in Variants(ResolvedAtEnd(avIn.incidents, avIn.periodEnd)) :
              buildServiceAvailability(avIn.services, other, avIn.periodStart,
                                       avIn.periodEnd) = availabilities

\* an incident with status resolved and no resolvedAt has been charged up to
\* the end of the window, after an incident of another service
C29_Witness ==
    /\ AvDone
    /\ avIn.periodStart = 1
    /\ avIn.periodEnd = MaxTime - 1
    /\ Len(avIn.incidents) = 2
    /\ avIn.incidents[1].service = "api"
    /\ avIn.incidents[1].createdAt = 1
    /\ avIn.incidents[1].resolvedAt = 2
    /\ avIn.incidents[2] = [service |-> "", status |-> "resolved",
                            createdAt |-> 2, resolvedAt |-> NoTime]
    /\ \E k \in DOMAIN availabilities :
          /\ availabilities[k].service = "unknown"
          /\ serviceDowntime["unknown"] = MaxTime - 3

(***************************************************************************)
(* Concurrent rotations (specification SpecRefresh)                        *)
(***************************************************************************)
\* C30 (as claimed): two concurrent RotateRefreshToken calls on the same
\* valid, unexpired token cannot both succeed: for each stored refresh token
\* at most one successor token is ever issued, under every interleaving of
\* the lookup, revoke and insert steps.
C30_AtMostOneSuccessor ==
    \A a, b \in rtLog.rotations : a[1] = b[1] => a[2] = b[2]

====
